---- MODULE Spec2Model ----
(***************************************************************************)
(* Discovery, QoS compatibility and transport routing of the layered ROS2  *)
(* / DDS discrete-event simulation.                                        *)
(*                                                                         *)
(* Strings that the code takes apart (partition names) are sequences of    *)
(* one-character strings.  Durations are integers in a fixed unit;         *)
(* float('inf') is the value INFINITY, compared with Leq / Geq.            *)
(***************************************************************************)
EXTENDS Integers, Sequences, FiniteSets, TLC

VARIABLES
    pub_qos,        \* check_compatibility: the offered (publisher) profile
    sub_qos,        \* check_compatibility: the requested (subscriber) profile
    qos_result,     \* <<>> before the call, <<QoSCompatibilityResult>> after it
    policy_result,  \* <<>> before the per-policy calls, <<their results>> after
    match_result,   \* <<>> before the call of _qos_match, <<bool>> after it
    constructed,    \* <<>>, or <<what the last QoSProfile(...) call gave>>
    router_state,   \* TransportRouter.state: <<>> is None, <<d>> the dict d
    router_error,   \* the exception that escaped TransportRouter, or "none"
    shm_state,      \* SharedMemoryTransport.state: <<>> is None, <<d>> the dict d
    transport_type, \* NetworkTransport.transport_type
    pending_messages, \* NetworkTransport.state['pending_messages']
    inputs,         \* history: the input events the kernel delivered, in order
    emitted,        \* history: the output events the kernel collected, in order
    pending_messages_2, \* a second run of the same NetworkTransport: its queue
    emitted_2,      \* the second run's output events, in order
    phase,          \* DDSParticipant.state['phase']
    initialized,    \* state['initialized']
    discovered_participants, \* state['discovered_participants']: guid -> info
    discovered_endpoints,    \* state['discovered_endpoints']: guid -> info
    local_writers,  \* state['local_writers']: topic -> list of DataWriter
    local_readers,  \* state['local_readers']: topic -> list of DataReader
    matched_endpoints,       \* state['matched_endpoints']: guid -> set of guids
    dds_pending_messages,    \* DDSParticipant.state['pending_messages']
    last_discovery_time,     \* state['last_discovery_time']
    last_heartbeat_time,     \* state['last_heartbeat_time']
    sequence_numbers,        \* state['sequence_numbers']: writer guid -> int
    wallclock,      \* the value time.time() returns
    ta,             \* kernel: <<>> when timeAdvance is to be evaluated, else <<value>>
    last_discovery, \* history: the kind of discovery message the last step processed
    rmw_phase,          \* RmwLayer.state["phase"]
    pending_pub_msgs,   \* RmwLayer.state["pending_pub_msgs"]
    published_msgs,     \* RmwLayer.state["published_msgs"]
    failed_deliveries,  \* RmwLayer.state["failed_deliveries"]
    subscriber_contexts,\* RmwLayer.state["subscriber_contexts"]: nodes of the topic
    take_attempts,      \* RmwLayer.state["take_attempts"]
    successful_takes,   \* RmwLayer.state["successful_takes"]
    rmw_output,         \* what RmwLayer.outputFnc returned last
    rmw_sent,           \* number of messages given to RmwLayer so far
    clock,              \* kernel: the global simulation time, in milliseconds
    server,             \* ActionServer: its goal queues, active goals, current goal
    srv_last_event_time,\* kernel: the time of the server's last transition
    srv_ta,             \* kernel: the server's cached time advance
    srv_elapsed,        \* the elapsed time the last external transition was given
    srv_output,         \* what ActionServer.outputFnc returned last, <<>> if not run
    last_step,          \* history: the kind of the kernel's last step
    inputs_sent,        \* number of input events delivered to the server so far
    children,           \* CoupledDEVS: the classes of the sub-models added so far
    couplings,          \* CoupledDEVS: the connections <<from, to>> made so far
    composed,           \* "building" inside __init__, then what __init__ ended in
    logger_1,           \* ROS2TraceLogger of the first run: enabled and its filters
    logger_2,           \* ROS2TraceLogger of the second run
    prng_stream,        \* the values the random module yields, in order, in both runs
    prng_pos_1,         \* first run: index of the next value the random module yields
    prng_pos_2,         \* second run: the same
    outcomes_1,         \* first run: the simulated outcomes so far, in order
    outcomes_2,         \* second run: the same
    events_1,           \* first run: number of trace events stored
    events_2,           \* second run: the same
    validation_level,   \* EnhancedValidator.validation_level
    traces,             \* the list of trace dictionaries given to validate
    validation,         \* <<>> before the call of validate, <<its outcome>> after
    ex_phase,           \* MultiThreadedExecutor.state['phase']
    work_queue,         \* state['work_queue']
    active_threads,     \* state['active_threads'], in insertion order
    available_threads,  \* state['available_threads']
    callback_group_locks, \* state['callback_group_locks']: group -> thread id
    dispatch_loop,      \* TRUE while outputFnc is inside its dispatch loop
    work_submitted,     \* number of work items given to the executor so far
    mgr_groups,         \* CallbackGroupManager._groups: the registered group ids
    callback_to_group,  \* CallbackGroupManager._callback_to_group
    mgr_lock,           \* TRUE while CallbackGroupManager._lock is held
    me_executing,       \* MutuallyExclusiveCallbackGroup._executing
    re_executing,       \* ReentrantCallbackGroup._executing
    cbg_call,           \* the manager method the thread is inside
    cbg_pc,             \* the thread's position inside that method
    available_callbacks, \* the argument of get_ready_callbacks
    cbg_next,           \* index of the next handle of the loop
    cbg_handle,         \* the argument of can_execute
    ready,              \* the list get_ready_callbacks builds
    lm_phase,           \* LifecycleManager.state['phase']
    current_operation,  \* state['current_operation']
    operation_sequence, \* state['operation_sequence']
    current_step,       \* state['current_step']
    waiting_for_responses, \* state['waiting_for_responses']: node -> request id
    node_states,        \* state['node_states']: the manager's view of the nodes
    lifecycle_state,    \* per node: LifecycleNode.state['lifecycle_state']
    node_phase,         \* per node: LifecycleNode.state['phase']
    pending_transition, \* per node: LifecycleNode.state['pending_transition']
    status_out,         \* <<the last status the manager put on status_out>>
    db_participants,    \* DiscoveryDatabase.participants: guid -> ParticipantInfo
    db_endpoints,       \* DiscoveryDatabase.endpoints: guid -> EndpointInfo
    topic_cache,        \* DiscoveryDatabase.topic_cache: topic -> set of guids
    dds_raised,         \* <<>>, or <<the exception that ended the participant's run>>
    data_out,           \* <<>>, or <<the message last put on data_out>>
    announced_at,       \* history: remote participant -> time.time() of its last announcement
    swept               \* history: a lease sweep has run since the last announcement

qos_vars ==
    <<pub_qos, sub_qos, qos_result, policy_result, match_result, constructed>>

transport_vars ==
    <<router_state, router_error, shm_state, transport_type, pending_messages,
      inputs, emitted>>

run2_vars == <<pending_messages_2, emitted_2>>

dds_state ==
    <<phase, initialized, discovered_participants, discovered_endpoints,
      local_writers, local_readers, matched_endpoints, dds_pending_messages,
      last_discovery_time, last_heartbeat_time, sequence_numbers>>

dds_vars ==
    <<dds_state, wallclock, ta, last_discovery>>

rmw_vars ==
    <<rmw_phase, pending_pub_msgs, published_msgs, failed_deliveries,
      subscriber_contexts, take_attempts, successful_takes, rmw_output,
      rmw_sent>>

kernel_vars ==
    <<clock, server, srv_last_event_time, srv_ta, srv_elapsed, srv_output,
      last_step, inputs_sent>>

composition_vars == <<children, couplings, composed>>

trace_vars ==
    <<logger_1, logger_2, prng_stream, prng_pos_1, prng_pos_2, outcomes_1,
      outcomes_2, events_1, events_2>>

validator_vars == <<validation_level, traces, validation>>

executor_vars ==
    <<ex_phase, work_queue, active_threads, available_threads,
      callback_group_locks, dispatch_loop, work_submitted>>

cbg_vars ==
    <<mgr_groups, callback_to_group, mgr_lock, me_executing, re_executing,
      cbg_call, cbg_pc, available_callbacks, cbg_next, cbg_handle, ready>>

lifecycle_vars ==
    <<lm_phase, current_operation, operation_sequence, current_step,
      waiting_for_responses, node_states, lifecycle_state, node_phase,
      pending_transition, status_out>>

db_vars == <<db_participants, db_endpoints, topic_cache>>

dataout_vars == <<dds_raised, data_out>>

lease_vars == <<announced_at, swept>>

early_vars ==
    <<qos_vars, transport_vars, run2_vars, dds_vars, rmw_vars, kernel_vars,
      composition_vars>>

late_vars ==
    <<trace_vars, validator_vars, executor_vars, cbg_vars,
      lifecycle_vars, db_vars, dataout_vars, lease_vars>>

trace_frame ==
    <<early_vars, validator_vars, executor_vars, cbg_vars,
      lifecycle_vars, db_vars, dataout_vars, lease_vars>>

validator_frame ==
    <<early_vars, trace_vars, executor_vars, cbg_vars, lifecycle_vars,
      db_vars, dataout_vars, lease_vars>>

executor_frame ==
    <<early_vars, trace_vars, validator_vars, cbg_vars, lifecycle_vars,
      db_vars, dataout_vars, lease_vars>>

cbg_frame ==
    <<early_vars, trace_vars, validator_vars, executor_vars,
      lifecycle_vars, db_vars, dataout_vars, lease_vars>>

lifecycle_frame ==
    <<early_vars, trace_vars, validator_vars, executor_vars, cbg_vars,
      db_vars, dataout_vars, lease_vars>>

db_frame ==
    <<early_vars, trace_vars, validator_vars, executor_vars, cbg_vars,
      lifecycle_vars, dataout_vars, lease_vars>>

dataout_frame ==
    <<early_vars, trace_vars, validator_vars, executor_vars, cbg_vars,
      lifecycle_vars, db_vars, lease_vars>>

dataout_rest ==
    <<trace_vars, validator_vars, executor_vars, cbg_vars,
      lifecycle_vars, db_vars, lease_vars>>

lease_frame ==
    <<early_vars, trace_vars, validator_vars, executor_vars, cbg_vars,
      lifecycle_vars, db_vars, dataout_vars>>

lease_rest ==
    <<trace_vars, validator_vars, executor_vars, cbg_vars,
      lifecycle_vars, db_vars, dataout_vars>>

vars == <<early_vars, late_vars>>

----------------------------------------------------------------------------
(* float('inf') / pypdevs INFINITY *)
INFINITY == 0 - 1

Leq(a, b) == b = INFINITY \/ (a # INFINITY /\ a <= b)
Geq(a, b) == Leq(b, a)
Lt(a, b) == ~Leq(b, a)
Gt(a, b) == ~Leq(a, b)

(* x * num / den on floats, inf * c = inf; compared sides are scaled by den *)
Scaled(x, num) == IF x = INFINITY THEN INFINITY ELSE x * num
Whole(x, den) == IF x = INFINITY THEN INFINITY ELSE x * den

----------------------------------------------------------------------------
(* QoS data model: core/dataTypes.py *)

QoSReliabilityPolicy == {"RELIABLE", "BEST_EFFORT"}
QoSDurabilityPolicy == {"VOLATILE", "TRANSIENT_LOCAL", "TRANSIENT", "PERSISTENT"}
QoSHistoryPolicy == {"KEEP_LAST", "KEEP_ALL"}
QoSLivelinessPolicy == {"AUTOMATIC", "MANUAL_BY_TOPIC", "MANUAL_BY_PARTICIPANT"}
QoSOwnershipPolicy == {"SHARED", "EXCLUSIVE"}

max_samples == 5000

(* QoSProfile() with every field at its default *)
DefaultQoSProfile ==
    [reliability |-> "RELIABLE", durability |-> "VOLATILE",
     history |-> "KEEP_LAST", depth |-> 10,
     deadline |-> INFINITY, lifespan |-> INFINITY,
     liveliness |-> "AUTOMATIC", liveliness_lease_duration |-> INFINITY,
     ownership |-> "SHARED", partition |-> {}]

----------------------------------------------------------------------------
(* str helpers used by _partition_matches *)

HasStar(s) == \E i \in 1..Len(s) : s[i] = "*"

StartsWith(s, p) == Len(p) <= Len(s) /\ SubSeq(s, 1, Len(p)) = p

EndsWith(s, p) ==
    Len(p) <= Len(s) /\ SubSeq(s, Len(s) - Len(p) + 1, Len(s)) = p

(* pattern.split('*')[0]: the text before the first '*' *)
SplitFirst(s) ==
    LET i == CHOOSE k \in 1..Len(s) :
                 s[k] = "*" /\ \A j \in 1..(k - 1) : s[j] # "*"
    IN SubSeq(s, 1, i - 1)

(* pattern.split('*')[-1]: the text after the last '*' *)
SplitLast(s) ==
    LET i == CHOOSE k \in 1..Len(s) :
                 s[k] = "*" /\ \A j \in (k + 1)..Len(s) : s[j] # "*"
    IN SubSeq(s, i + 1, Len(s))

----------------------------------------------------------------------------
(* QoSCompatibilityChecker: qos/compatibility.py *)

(* the test made on the offered side instead of the requested one *)
check_reliability_sides_swapped(pub, sub) ==
    IF pub.reliability = "RELIABLE"
    THEN sub.reliability = "RELIABLE"
    ELSE TRUE

check_reliability(pub, sub) ==
    IF sub.reliability = "RELIABLE"
    THEN pub.reliability = "RELIABLE"
    ELSE TRUE

(* the table without its last entry: .get falls back to level 0 *)
durability_levels_no_persistent(d) ==
    CASE d = "VOLATILE" -> 0
      [] d = "TRANSIENT_LOCAL" -> 1
      [] d = "TRANSIENT" -> 2
      [] OTHER -> 0

durability_levels(d) ==
    CASE d = "VOLATILE" -> 0
      [] d = "TRANSIENT_LOCAL" -> 1
      [] d = "TRANSIENT" -> 2
      [] d = "PERSISTENT" -> 3
      [] OTHER -> 0

check_durability(pub, sub) ==
    durability_levels(pub.durability) >= durability_levels(sub.durability)

check_deadline(pub, sub) == Leq(pub.deadline, sub.deadline)

(* the tolerance applied to the offered side instead of the requested one *)
check_lifespan_tolerance_swapped(pub, sub) ==
    Geq(Scaled(pub.lifespan, 9), Whole(sub.lifespan, 10))

(* pub.lifespan >= sub.lifespan * 0.9 *)
check_lifespan(pub, sub) == Geq(Whole(pub.lifespan, 10), Scaled(sub.lifespan, 9))

liveliness_levels(l) ==
    CASE l = "AUTOMATIC" -> 0
      [] l = "MANUAL_BY_TOPIC" -> 1
      [] l = "MANUAL_BY_PARTICIPANT" -> 2
      [] OTHER -> 0

check_liveliness(pub, sub) ==
    IF liveliness_levels(pub.liveliness) < liveliness_levels(sub.liveliness)
    THEN FALSE
    ELSE Leq(pub.liveliness_lease_duration, sub.liveliness_lease_duration)

check_history(pub, sub) ==
    IF sub.history = "KEEP_ALL"
    THEN pub.history = "KEEP_ALL"
    ELSE IF pub.history = "KEEP_LAST" /\ sub.history = "KEEP_LAST"
         THEN pub.depth >= sub.depth
         ELSE TRUE

check_ownership(pub, sub) == pub.ownership = sub.ownership

partition_matches(pattern, name) ==
    IF ~HasStar(pattern) /\ ~HasStar(name)
    THEN pattern = name
    ELSE IF HasStar(pattern)
         THEN IF SplitFirst(pattern) # <<>>
                 /\ ~StartsWith(name, SplitFirst(pattern))
              THEN FALSE
              ELSE IF SplitLast(pattern) # <<>>
                      /\ ~EndsWith(name, SplitLast(pattern))
                   THEN FALSE
                   ELSE TRUE
         ELSE FALSE

check_partition(pub, sub) ==
    IF pub.partition = {} /\ sub.partition = {}
    THEN TRUE
    ELSE LET pub_partitions ==
                 IF pub.partition # {} THEN pub.partition ELSE {<<>>}
             sub_partitions ==
                 IF sub.partition # {} THEN sub.partition ELSE {<<>>}
         IN \E pub_part \in pub_partitions : \E sub_part \in sub_partitions :
                partition_matches(pub_part, sub_part)

generate_warnings(pub, sub) ==
    (IF Gt(Whole(pub.deadline, 10), Scaled(sub.deadline, 8))
        THEN {"deadline_close"} ELSE {})
    \cup (IF pub.history = "KEEP_LAST" /\ pub.depth < 5
        THEN {"small_depth"} ELSE {})
    \cup (IF Lt(pub.lifespan, Scaled(pub.deadline, 2))
        THEN {"lifespan_lt_2x_deadline"} ELSE {})
    \cup (IF max_samples < pub.depth * 2
        THEN {"max_samples_close"} ELSE {})

(* incompatible.append(name) when the check fails *)
AppendUnless(ok, incompatible, name) ==
    IF ok THEN incompatible ELSE Append(incompatible, name)

(* the last dimension left out of the list *)
check_compatibility_no_partition(pub, sub) ==
    LET i1 == AppendUnless(check_reliability(pub, sub), <<>>, "reliability")
        i2 == AppendUnless(check_durability(pub, sub), i1, "durability")
        i3 == AppendUnless(check_deadline(pub, sub), i2, "deadline")
        i4 == AppendUnless(check_lifespan(pub, sub), i3, "lifespan")
        i5 == AppendUnless(check_liveliness(pub, sub), i4, "liveliness")
        i6 == AppendUnless(check_history(pub, sub), i5, "history")
        i7 == AppendUnless(check_ownership(pub, sub), i6, "ownership")
    IN [compatible |-> Len(i7) = 0,
        incompatible_policies |-> i7,
        warnings |-> generate_warnings(pub, sub)]

check_compatibility(pub, sub) ==
    LET i1 == AppendUnless(check_reliability(pub, sub), <<>>, "reliability")
        i2 == AppendUnless(check_durability(pub, sub), i1, "durability")
        i3 == AppendUnless(check_deadline(pub, sub), i2, "deadline")
        i4 == AppendUnless(check_lifespan(pub, sub), i3, "lifespan")
        i5 == AppendUnless(check_liveliness(pub, sub), i4, "liveliness")
        i6 == AppendUnless(check_history(pub, sub), i5, "history")
        i7 == AppendUnless(check_ownership(pub, sub), i6, "ownership")
        i8 == AppendUnless(check_partition(pub, sub), i7, "partition")
    IN [compatible |-> Len(i8) = 0,
        incompatible_policies |-> i8,
        warnings |-> generate_warnings(pub, sub)]

(* None, the value of an Optional field that is not set *)
None == 0 - 2

TypeError == "TypeError"

(* a comparison or product with None as an operand raises TypeError *)
Unorderable(a, b) == a = None \/ b = None

(* The exception a call of check_compatibility ends with, "none" when it    *)
(* returns: the checks run in the order of check_compatibility, each        *)
(* comparison of the timing fields raising on None, _check_liveliness       *)
(* returning before its comparison when the kind is too low, and            *)
(* _check_partition reading an attribute only core/dataTypes.py declares.   *)
check_compatibility_raises(pub, sub) ==
    IF Unorderable(pub.deadline, sub.deadline) THEN TypeError
    ELSE IF Unorderable(pub.lifespan, sub.lifespan) THEN TypeError
    ELSE IF liveliness_levels(pub.liveliness)
                >= liveliness_levels(sub.liveliness)
            /\ Unorderable(pub.liveliness_lease_duration,
                           sub.liveliness_lease_duration)
    THEN TypeError
    ELSE IF "partition" \notin DOMAIN pub \/ "partition" \notin DOMAIN sub
    THEN "AttributeError"
    ELSE "none"

(* what the caller of check_compatibility gets: the result or the exception *)
check_compatibility_outcome(pub, sub) ==
    IF check_compatibility_raises(pub, sub) = "none"
    THEN check_compatibility(pub, sub)
    ELSE [raised |-> check_compatibility_raises(pub, sub)]

----------------------------------------------------------------------------
(* The participant's own QoS check: participant.py *)

(* DDSParticipant._qos_match *)
qos_match(writer_qos, reader_qos) ==
    IF reader_qos.reliability = "RELIABLE"
       /\ writer_qos.reliability = "BEST_EFFORT"
    THEN FALSE
    ELSE IF durability_levels(reader_qos.durability)
                > durability_levels(writer_qos.durability)
    THEN FALSE
    ELSE IF Gt(writer_qos.deadline, reader_qos.deadline)
    THEN FALSE
    ELSE IF writer_qos.partition # {} /\ reader_qos.partition # {}
            /\ writer_qos.partition \cap reader_qos.partition = {}
    THEN FALSE
    ELSE TRUE

----------------------------------------------------------------------------
(* The policy classes: policies.py *)

LifespanQosPolicy(duration) == [duration |-> duration]

(* self.duration >= other.duration *)
LifespanQosPolicy_is_compatible_with(self, other) ==
    Geq(self.duration, other.duration)

HistoryQosPolicy(kind, depth) == [kind |-> kind, depth |-> depth]

HistoryQosPolicy_is_compatible_with(self, other) ==
    IF self.kind = "KEEP_ALL" /\ other.kind # "KEEP_ALL"
    THEN FALSE
    ELSE IF self.kind = "KEEP_LAST" /\ other.kind = "KEEP_LAST"
         THEN self.depth >= other.depth
         ELSE TRUE

----------------------------------------------------------------------------
(* Each specification drives one part of the program; the variables of the  *)
(* other parts stay at these values.                                        *)

QoSIdle ==
    /\ pub_qos = DefaultQoSProfile
    /\ sub_qos = DefaultQoSProfile
    /\ qos_result = <<>>
    /\ policy_result = <<>>
    /\ match_result = <<>>
    /\ constructed = <<>>

TransportIdle ==
    /\ router_state = <<>>
    /\ router_error = "none"
    /\ shm_state = <<>>
    /\ transport_type = "TCP"
    /\ pending_messages = <<>>
    /\ inputs = <<>>
    /\ emitted = <<>>
    /\ pending_messages_2 = <<>>
    /\ emitted_2 = <<>>

(* The participant's GUIDs are pairs <<owner, n>>; <<>> is the empty string. *)
LocalParticipant == "L"

participant_guid == <<LocalParticipant, 0>>

EpochStart == 2

Topics == {"t1", "t2"}

(* DDSParticipant.__init__ *)
ParticipantStart ==
    /\ phase = "initializing"
    /\ initialized = FALSE
    /\ discovered_participants = <<>>
    /\ discovered_endpoints = <<>>
    /\ local_writers = [topic \in Topics |-> <<>>]
    /\ local_readers = [topic \in Topics |-> <<>>]
    /\ matched_endpoints = <<>>
    /\ dds_pending_messages = <<>>
    /\ last_discovery_time = 0
    /\ last_heartbeat_time = 0
    /\ sequence_numbers = <<>>
    /\ wallclock = EpochStart
    /\ ta = <<>>
    /\ last_discovery = "none"

ParticipantIdle == ParticipantStart

(* RmwLayer.__init__ *)
RmwStart ==
    /\ rmw_phase = "idle"
    /\ pending_pub_msgs = <<>>
    /\ published_msgs = <<>>
    /\ failed_deliveries = <<>>
    /\ subscriber_contexts = <<>>
    /\ take_attempts = 0
    /\ successful_takes = 0
    /\ rmw_output = <<>>
    /\ rmw_sent = 0

RmwIdle == RmwStart

(* ActionServer.__init__: no goal queued, none active, none executing.      *)
(* active_goals is a function from goal ids to their GoalInfo; <<>> is the  *)
(* empty dict, and current_goal is <<>> for None.                          *)
ActionServerStart ==
    [pending_goals |-> <<>>, pending_cancellations |-> <<>>,
     active_goals |-> <<>>, current_goal |-> <<>>]

(* The kernel before its first step: the clock at zero, the server's time   *)
(* advance cached from its initial state (passive).                         *)
KernelStart ==
    /\ clock = 0
    /\ server = ActionServerStart
    /\ srv_last_event_time = 0
    /\ srv_ta = INFINITY
    /\ srv_elapsed = 0
    /\ srv_output = <<>>
    /\ last_step = "none"
    /\ inputs_sent = 0

KernelIdle == KernelStart

(* CoupledDEVS.__init__: no sub-model, no connection.                       *)
CompositionStart ==
    /\ children = {}
    /\ couplings = {}
    /\ composed = "building"

CompositionIdle == CompositionStart

(* ROS2TraceLogger.__init__ of two runs, the shared random module before   *)
(* its first draw, nothing simulated or logged yet.                         *)
DefaultLogger ==
    [enabled |-> TRUE, filter_patterns |-> {}, exclude_patterns |-> {}]

TraceIdle ==
    /\ logger_1 = DefaultLogger
    /\ logger_2 = DefaultLogger
    /\ prng_stream = <<>>
    /\ prng_pos_1 = 1
    /\ prng_pos_2 = 1
    /\ outcomes_1 = <<>>
    /\ outcomes_2 = <<>>
    /\ events_1 = 0
    /\ events_2 = 0

(* EnhancedValidator.__init__ with the default level, validate not called  *)
ValidatorIdle ==
    /\ validation_level = "standard"
    /\ traces = <<>>
    /\ validation = <<>>

num_threads == 2

(* MultiThreadedExecutor.__init__ *)
ExecutorStart ==
    /\ ex_phase = "idle"
    /\ work_queue = <<>>
    /\ active_threads = <<>>
    /\ available_threads = [i \in 1..num_threads |-> i - 1]
    /\ callback_group_locks = <<>>
    /\ dispatch_loop = FALSE
    /\ work_submitted = 0

ExecutorIdle == ExecutorStart

Handles == {1, 2}

NoGroup == "no group"

(* CallbackGroupManager.__init__, and the two groups as constructed *)
CbgStart ==
    /\ mgr_groups = {}
    /\ callback_to_group = [h \in Handles |-> NoGroup]
    /\ mgr_lock = FALSE
    /\ me_executing = None
    /\ re_executing = {}
    /\ cbg_call = "none"
    /\ cbg_pc = "idle"
    /\ available_callbacks = <<>>
    /\ cbg_next = 1
    /\ cbg_handle = None
    /\ ready = <<>>

CbgIdle == CbgStart

managed_nodes == <<"camera_driver", "perception_pipeline">>

ManagedNodes == {managed_nodes[i] : i \in 1..Len(managed_nodes)}

NoOperation == "None"

(* LifecycleManager.__init__ *)
LifecycleManagerStart ==
    /\ lm_phase = "idle"
    /\ current_operation = NoOperation
    /\ operation_sequence = <<>>
    /\ current_step = 0
    /\ waiting_for_responses = <<>>
    /\ node_states = [n \in ManagedNodes |-> "UNCONFIGURED"]
    /\ status_out = <<>>

(* LifecycleNode.__init__, apart from the lifecycle state *)
LifecycleNodeStart ==
    /\ node_phase = [n \in ManagedNodes |-> "idle"]
    /\ pending_transition = [n \in ManagedNodes |-> "None"]

LifecycleIdle ==
    /\ LifecycleManagerStart
    /\ LifecycleNodeStart
    /\ lifecycle_state = [n \in ManagedNodes |-> "UNCONFIGURED"]

(* DiscoveryDatabase.__init__ *)
DbStart ==
    /\ db_participants = <<>>
    /\ db_endpoints = <<>>
    /\ topic_cache = <<>>

DbIdle == DbStart

(* no exception raised, nothing sent on data_out yet *)
DataOutIdle ==
    /\ dds_raised = <<>>
    /\ data_out = <<>>

(* no announcement received and no sweep run yet *)
LeaseIdle ==
    /\ announced_at = <<>>
    /\ swept = FALSE

LateIdle ==
    /\ TraceIdle /\ ValidatorIdle /\ ExecutorIdle /\ CbgIdle
    /\ LifecycleIdle /\ DbIdle /\ DataOutIdle /\ LeaseIdle

EarlyIdle ==
    /\ QoSIdle /\ TransportIdle /\ ParticipantIdle /\ RmwIdle
    /\ KernelIdle /\ CompositionIdle

TraceRestIdle ==
    /\ EarlyIdle /\ ValidatorIdle /\ ExecutorIdle /\ CbgIdle
    /\ LifecycleIdle /\ DbIdle /\ DataOutIdle /\ LeaseIdle

ValidatorRestIdle ==
    /\ EarlyIdle /\ TraceIdle /\ ExecutorIdle /\ CbgIdle
    /\ LifecycleIdle /\ DbIdle /\ DataOutIdle /\ LeaseIdle

ExecutorRestIdle ==
    /\ EarlyIdle /\ TraceIdle /\ ValidatorIdle /\ CbgIdle
    /\ LifecycleIdle /\ DbIdle /\ DataOutIdle /\ LeaseIdle

CbgRestIdle ==
    /\ EarlyIdle /\ TraceIdle /\ ValidatorIdle /\ ExecutorIdle
    /\ LifecycleIdle /\ DbIdle /\ DataOutIdle /\ LeaseIdle

LifecycleRestIdle ==
    /\ EarlyIdle /\ TraceIdle /\ ValidatorIdle /\ ExecutorIdle
    /\ CbgIdle /\ DbIdle /\ DataOutIdle /\ LeaseIdle

DbRestIdle ==
    /\ EarlyIdle /\ TraceIdle /\ ValidatorIdle /\ ExecutorIdle
    /\ CbgIdle /\ LifecycleIdle /\ DataOutIdle /\ LeaseIdle

DataOutRestIdle ==
    /\ EarlyIdle /\ TraceIdle /\ ValidatorIdle /\ ExecutorIdle
    /\ CbgIdle /\ LifecycleIdle /\ DbIdle /\ LeaseIdle

LeaseRestIdle ==
    /\ EarlyIdle /\ TraceIdle /\ ValidatorIdle /\ ExecutorIdle
    /\ CbgIdle /\ LifecycleIdle /\ DbIdle /\ DataOutIdle

(* end of the idle predicates *)

----------------------------------------------------------------------------
(* Profiles the compatibility check is exercised on.  SmallProfiles lets    *)
(* every dimension pass and fail independently; WideProfiles adds depths,   *)
(* all durability and liveliness levels and wildcard partitions, and is     *)
(* used for the check of a profile against itself.                          *)

PartitionNames ==
    {<<"a">>, <<"b">>, <<"a", "b">>, <<"a", "*">>, <<"*", "b">>, <<"*">>,
     <<"a", "*", "b">>}

MaxPartitions == 2

PartitionLists ==
    {P \in SUBSET PartitionNames : Cardinality(P) <= MaxPartitions}

SmallProfiles ==
    [reliability : QoSReliabilityPolicy,
     durability : {"VOLATILE", "TRANSIENT_LOCAL"},
     history : QoSHistoryPolicy,
     depth : {1},
     deadline : {1, INFINITY},
     lifespan : {9, 10},
     liveliness : {"AUTOMATIC", "MANUAL_BY_TOPIC"},
     liveliness_lease_duration : {INFINITY},
     ownership : QoSOwnershipPolicy,
     partition : {{}, {<<"a">>}}]

WideProfiles ==
    [reliability : QoSReliabilityPolicy,
     durability : QoSDurabilityPolicy,
     history : QoSHistoryPolicy,
     depth : {1, 2},
     deadline : {1, INFINITY},
     lifespan : {9, 10, INFINITY},
     liveliness : QoSLivelinessPolicy,
     liveliness_lease_duration : {1, INFINITY},
     ownership : QoSOwnershipPolicy,
     partition : PartitionLists]

(* the default profile with each durability kind *)
DurabilityProfiles ==
    {[DefaultQoSProfile EXCEPT !.durability = d] : d \in QoSDurabilityPolicy}

(* the default profile with each partition list *)
PartitionProfiles ==
    {[DefaultQoSProfile EXCEPT !.partition = P] : P \in PartitionLists}

MaxDepth == 3

(* the default profile with each history kind and depth *)
HistoryProfiles ==
    {[DefaultQoSProfile EXCEPT !.history = h, !.depth = d] :
         h \in QoSHistoryPolicy, d \in 1..MaxDepth}

QoSStart ==
    /\ \/ pub_qos \in SmallProfiles /\ sub_qos \in SmallProfiles
       \/ pub_qos \in WideProfiles /\ sub_qos = pub_qos
       \/ pub_qos \in DurabilityProfiles /\ sub_qos \in DurabilityProfiles
       \/ pub_qos \in PartitionProfiles /\ sub_qos \in PartitionProfiles
       \/ pub_qos \in HistoryProfiles /\ sub_qos \in HistoryProfiles
    /\ qos_result = <<>>
    /\ policy_result = <<>>
    /\ match_result = <<>>
    /\ constructed = <<>>

QoSInit == QoSStart /\ TransportIdle /\ ParticipantIdle /\ RmwIdle /\ KernelIdle
    /\ CompositionIdle /\ LateIdle

(* one function is applied to the pair of profiles *)
QoSUncalled ==
    qos_result = <<>> /\ policy_result = <<>> /\ match_result = <<>>

(* result = QoSCompatibilityChecker.check_compatibility(pub_qos, sub_qos) *)
CheckCompatibilityCall ==
    /\ QoSUncalled
    /\ qos_result' = <<check_compatibility_outcome(pub_qos, sub_qos)>>
    /\ UNCHANGED <<pub_qos, sub_qos, policy_result, match_result, constructed>>
    /\ UNCHANGED <<transport_vars, run2_vars, dds_vars, rmw_vars, kernel_vars,
                 composition_vars, late_vars>>

(* offered.is_compatible_with(requested) on the policy objects that carry   *)
(* the two profiles' lifespan and history values                            *)
PolicyCompatibleCall ==
    /\ QoSUncalled
    /\ policy_result' =
           <<[lifespan |-> LifespanQosPolicy_is_compatible_with(
                               LifespanQosPolicy(pub_qos.lifespan),
                               LifespanQosPolicy(sub_qos.lifespan)),
              history |-> HistoryQosPolicy_is_compatible_with(
                              HistoryQosPolicy(pub_qos.history, pub_qos.depth),
                              HistoryQosPolicy(sub_qos.history, sub_qos.depth))]>>
    /\ UNCHANGED <<pub_qos, sub_qos, qos_result, match_result, constructed>>
    /\ UNCHANGED <<transport_vars, run2_vars, dds_vars, rmw_vars, kernel_vars,
                 composition_vars, late_vars>>

(* DDSParticipant._qos_match(writer_qos, reader_qos) on the two profiles *)
QosMatchCall ==
    /\ QoSUncalled
    /\ match_result' = <<qos_match(pub_qos, sub_qos)>>
    /\ UNCHANGED <<pub_qos, sub_qos, qos_result, policy_result, constructed>>
    /\ UNCHANGED <<transport_vars, run2_vars, dds_vars, rmw_vars, kernel_vars,
                 composition_vars, late_vars>>

QoSNext == CheckCompatibilityCall \/ PolicyCompatibleCall \/ QosMatchCall

SpecQoS == QoSInit /\ [][QoSNext]_vars

(* QoSProfile objects of qos/policies.py: the timing fields are Optional    *)
(* and None unless set, and there is no partition field                     *)
PolicyProfiles ==
    [reliability : QoSReliabilityPolicy,
     durability : {"VOLATILE"},
     history : {"KEEP_LAST"},
     depth : {10},
     liveliness : {"AUTOMATIC", "MANUAL_BY_TOPIC"},
     ownership : {"SHARED"},
     deadline : {None, 1},
     lifespan : {None, 1},
     liveliness_lease_duration : {None, 1}]

(* QoSProfile objects of core/dataTypes.py with bounded and unbounded       *)
(* timing fields                                                            *)
UnboundedProfiles ==
    {[DefaultQoSProfile EXCEPT !.deadline = d, !.lifespan = l,
                               !.liveliness_lease_duration = ld,
                               !.liveliness = lv] :
         d \in {1, INFINITY}, l \in {1, INFINITY}, ld \in {1, INFINITY},
         lv \in {"AUTOMATIC", "MANUAL_BY_TOPIC"}}

QoSUnsetInit ==
    /\ \/ pub_qos \in PolicyProfiles /\ sub_qos \in PolicyProfiles
       \/ pub_qos \in UnboundedProfiles /\ sub_qos \in UnboundedProfiles
    /\ qos_result = <<>>
    /\ policy_result = <<>>
    /\ match_result = <<>>
    /\ constructed = <<>>
    /\ TransportIdle /\ ParticipantIdle /\ RmwIdle /\ KernelIdle
    /\ CompositionIdle /\ LateIdle

QoSUnsetNext == CheckCompatibilityCall

(* the compatibility check on profiles with unset and unbounded fields *)
SpecQoSUnset == QoSUnsetInit /\ [][QoSUnsetNext]_vars

----------------------------------------------------------------------------
(* The eight per-policy dimensions, by the name check_compatibility reports *)
Dimensions ==
    {"reliability", "durability", "deadline", "lifespan", "liveliness",
     "history", "ownership", "partition"}

DimensionOk(d, pub, sub) ==
    CASE d = "reliability" -> check_reliability(pub, sub)
      [] d = "durability" -> check_durability(pub, sub)
      [] d = "deadline" -> check_deadline(pub, sub)
      [] d = "lifespan" -> check_lifespan(pub, sub)
      [] d = "liveliness" -> check_liveliness(pub, sub)
      [] d = "history" -> check_history(pub, sub)
      [] d = "ownership" -> check_ownership(pub, sub)
      [] d = "partition" -> check_partition(pub, sub)

Listed(seq) == {seq[i] : i \in 1..Len(seq)}

----------------------------------------------------------------------------
(* Transport layer: dds/transport.py.  Every class is an atomic model run   *)
(* by the simulation kernel: extTransition's return value is the model's    *)
(* new state, and the only events a model emits are those outputFnc returns *)
(* when its time advance has elapsed.                                       *)

TransportType == {"SHARED_MEMORY", "UDP_MULTICAST", "UDP_UNICAST", "TCP"}

(* The members of MessageType (core/message.py; core/dataTypes.py has none   *)
(* named DISCOVERY either).                                                  *)
MessageType ==
    {"DATA", "SERVICE_REQUEST", "SERVICE_RESPONSE", "ACTION_GOAL",
     "ACTION_RESULT", "ACTION_FEEDBACK", "PARAMETER", "LIFECYCLE"}

AttributeError == "AttributeError"

(* MessageType.<name>: the member, or AttributeError when there is none *)
MessageTypeMember(name) ==
    IF name \in MessageType THEN name ELSE AttributeError

Nodes == {"n1", "n2"}

MaxMessages == 2

(* The messages handed to the transport layer: source and destination node, *)
(* a type tag and the reliability of qos_profile ("None": no profile).      *)
MessageKinds ==
    [source_node : {"n1"}, destination_node : Nodes,
     type : {"DATA", "DISCOVERY"},
     reliability : {"None", "RELIABLE", "BEST_EFFORT"}]

NewMessage(kind) ==
    [id |-> Len(inputs) + 1, source_node |-> kind.source_node,
     destination_node |-> kind.destination_node, type |-> kind.type,
     reliability |-> kind.reliability]

(* TransportRouter._select_transport *)
select_transport(message) ==
    IF message.source_node = message.destination_node
    THEN "SHARED_MEMORY"
    ELSE IF MessageTypeMember("DISCOVERY") = AttributeError
         THEN AttributeError
         ELSE IF message.type = MessageTypeMember("DISCOVERY")
              THEN "UDP_MULTICAST"
              ELSE IF message.reliability = "RELIABLE"
                   THEN "TCP"
                   ELSE "UDP_UNICAST"

RouterPort(transport) ==
    CASE transport = "SHARED_MEMORY" -> "shm_out"
      [] transport = "UDP_MULTICAST" -> "multicast_out"
      [] transport = "UDP_UNICAST" -> "unicast_out"
      [] OTHER -> "tcp_out"

(* TransportRouter.extTransition: the dict it builds is returned, and so    *)
(* becomes the state; an exception of _select_transport escapes.            *)
RouterExtTransition(kind) ==
    LET message == NewMessage(kind)
        transport == select_transport(message)
    IN /\ Len(inputs) < MaxMessages
       /\ inputs' = Append(inputs, [model |-> "router", message |-> message])
       /\ IF transport = AttributeError
          THEN /\ router_error' = AttributeError
               /\ UNCHANGED router_state
          ELSE /\ router_state' =
                     <<[port |-> RouterPort(transport), message |-> message]>>
               /\ UNCHANGED router_error
       /\ UNCHANGED <<shm_state, transport_type, pending_messages, emitted>>
       /\ UNCHANGED <<qos_vars, run2_vars, dds_vars, rmw_vars, kernel_vars,
                 composition_vars, late_vars>>

(* SharedMemoryTransport.extTransition *)
ShmExtTransition(kind) ==
    LET message == NewMessage(kind)
    IN /\ Len(inputs) < MaxMessages
       /\ inputs' = Append(inputs, [model |-> "shm", message |-> message])
       /\ shm_state' = <<[port |-> "data_out", message |-> message]>>
       /\ UNCHANGED <<router_state, router_error, transport_type,
                      pending_messages, emitted>>
       /\ UNCHANGED <<qos_vars, run2_vars, dds_vars, rmw_vars, kernel_vars,
                 composition_vars, late_vars>>

(* network.lan_loss_rate, in thousandths *)
lan_loss_rate == 1

(* Values of random.random(), in thousandths: one below every loss rate in   *)
(* use, one above.                                                           *)
RandomDraws == {0, 500}

(* a reliable transport that drops like the datagram ones *)
should_drop_tcp_lossy(type, random) == random < lan_loss_rate

(* NetworkTransport._should_drop, random being the value random.random() gave *)
should_drop(type, random) ==
    IF type = "UDP_MULTICAST"
    THEN random < lan_loss_rate
    ELSE IF type = "UDP_UNICAST"
         THEN random < lan_loss_rate
         ELSE FALSE

(* network.lan_latency_us, network.wan_latency_us *)
lan_latency_us == 200
wan_latency_us == 10000

(* NetworkTransport._get_latency, in microseconds *)
get_latency(type) ==
    IF type = "UDP_MULTICAST"
    THEN lan_latency_us
    ELSE IF type = "UDP_UNICAST"
         THEN lan_latency_us
         ELSE wan_latency_us

(* pending' of NetworkTransport.extTransition *)
ext_pending(pending, type, message, random) ==
    IF ~should_drop(type, random) THEN Append(pending, message) ELSE pending

(* NetworkTransport.extTransition *)
NetExtTransition(kind) ==
    LET message == NewMessage(kind)
    IN /\ Len(inputs) < MaxMessages
       /\ inputs' = Append(inputs, [model |-> "net", message |-> message])
       /\ \E random \in RandomDraws :
              pending_messages' =
                  ext_pending(pending_messages, transport_type, message, random)
       /\ UNCHANGED <<router_state, router_error, shm_state, transport_type,
                      emitted>>
       /\ UNCHANGED <<qos_vars, run2_vars, dds_vars, rmw_vars, kernel_vars,
                 composition_vars, late_vars>>

TransportModels == {"router", "shm", "net"}

(* timeAdvance of each transport model *)
TransportTimeAdvance(model) ==
    CASE model = "router" -> INFINITY
      [] model = "shm" -> INFINITY
      [] model = "net" ->
            IF pending_messages # <<>>
            THEN get_latency(transport_type)
            ELSE INFINITY

(* outputFnc of each transport model: the (port, value) pairs it returns *)
TransportOutputFnc(model) ==
    CASE model = "router" -> <<>>
      [] model = "shm" -> <<>>
      [] model = "net" ->
            IF pending_messages # <<>>
            THEN <<[model |-> "net", port |-> "receive_out",
                    message |-> pending_messages[1]]>>
            ELSE <<>>

(* The kernel fires an imminent model: outputFnc, then intTransition.  Only *)
(* NetworkTransport.intTransition changes its state (pop(0)).               *)
TransportInternal ==
    \E model \in TransportModels :
        /\ TransportTimeAdvance(model) # INFINITY
        /\ emitted' = emitted \o TransportOutputFnc(model)
        /\ pending_messages' =
               IF model = "net" /\ pending_messages # <<>>
               THEN Tail(pending_messages)
               ELSE pending_messages
        /\ UNCHANGED <<router_state, router_error, shm_state, transport_type,
                       inputs>>
        /\ UNCHANGED <<qos_vars, run2_vars, dds_vars, rmw_vars, kernel_vars,
                 composition_vars, late_vars>>

TransportStart ==
    /\ router_state = <<>>
    /\ router_error = "none"
    /\ shm_state = <<>>
    /\ transport_type \in {"UDP_MULTICAST", "UDP_UNICAST", "TCP"}
    /\ pending_messages = <<>>
    /\ inputs = <<>>
    /\ emitted = <<>>

Run2Idle == pending_messages_2 = <<>> /\ emitted_2 = <<>>

TransportInit ==
    TransportStart /\ Run2Idle /\ QoSIdle /\ ParticipantIdle /\ RmwIdle /\ KernelIdle
    /\ CompositionIdle /\ LateIdle

TransportNext ==
    \/ \E kind \in MessageKinds : RouterExtTransition(kind)
    \/ \E kind \in MessageKinds : ShmExtTransition(kind)
    \/ \E kind \in MessageKinds : NetExtTransition(kind)
    \/ TransportInternal

SpecTransport == TransportInit /\ [][TransportNext]_vars

(* The kernel always advances to the next imminent model. *)
FairSpecTransport == SpecTransport /\ WF_vars(TransportInternal)

InputsOf(model) ==
    {inputs[i].message : i \in {j \in 1..Len(inputs) : inputs[j].model = model}}

(* the ports on which the model has emitted the message *)
EmittedOn(model, message) ==
    {emitted[k].port :
        k \in {j \in 1..Len(emitted) :
                  emitted[j].model = model /\ emitted[j].message = message}}

(* the class the routing rule gives a message *)
PriorityClass(message) ==
    IF message.source_node = message.destination_node
    THEN "SHARED_MEMORY"
    ELSE IF message.type = "DISCOVERY"
         THEN "UDP_MULTICAST"
         ELSE IF message.reliability = "RELIABLE"
              THEN "TCP"
              ELSE "UDP_UNICAST"

(* C8: once the router has nothing more to emit, every message it was given *)
(* has gone out on exactly one port, the one of its class in the priority   *)
(* order shared memory, multicast, reliable, best-effort unicast, and       *)
(* routing raised no error.                                                 *)
C8_RoutedByPriority ==
    TransportTimeAdvance("router") = INFINITY =>
        /\ router_error = "none"
        /\ \A message \in InputsOf("router") :
               EmittedOn("router", message)
                   = {RouterPort(PriorityClass(message))}

(* C9: once the shared-memory transport has nothing more to emit, every     *)
(* same-process message it was given has been delivered on its output.      *)
C9_SharedMemoryDelivered ==
    TransportTimeAdvance("shm") = INFINITY =>
        \A message \in InputsOf("shm") :
            message.source_node = message.destination_node
                => EmittedOn("shm", message) = {"data_out"}

NetGiven(i) == i <= Len(inputs) /\ inputs[i].model = "net"

NetDelivered(i) ==
    /\ NetGiven(i)
    /\ EmittedOn("net", inputs[i].message) = {"receive_out"}

NetQueued(i) ==
    /\ NetGiven(i)
    /\ \E k \in 1..Len(pending_messages) :
           pending_messages[k] = inputs[i].message

----------------------------------------------------------------------------
(* Two runs of one NetworkTransport on the same input schedule: the first   *)
(* run in pending_messages / emitted, the second in pending_messages_2 /    *)
(* emitted_2.  Each run makes its own calls of random.random().             *)

DetExtTransition(kind) ==
    LET message == NewMessage(kind)
    IN /\ Len(inputs) < MaxMessages
       /\ inputs' = Append(inputs, [model |-> "net", message |-> message])
       /\ \E random \in RandomDraws :
              pending_messages' =
                  ext_pending(pending_messages, transport_type, message, random)
       /\ \E random \in RandomDraws :
              pending_messages_2' =
                  ext_pending(pending_messages_2, transport_type, message,
                              random)
       /\ UNCHANGED <<router_state, router_error, shm_state, transport_type,
                      emitted, emitted_2>>
       /\ UNCHANGED <<qos_vars, dds_vars, rmw_vars, kernel_vars,
                 composition_vars, late_vars>>

DetInternal1 ==
    /\ TransportTimeAdvance("net") # INFINITY
    /\ emitted' = emitted \o TransportOutputFnc("net")
    /\ pending_messages' = Tail(pending_messages)
    /\ UNCHANGED <<router_state, router_error, shm_state, transport_type,
                   inputs>>
    /\ UNCHANGED <<qos_vars, run2_vars, dds_vars, rmw_vars, kernel_vars,
                 composition_vars, late_vars>>

DetInternal2 ==
    /\ pending_messages_2 # <<>>
    /\ emitted_2' =
           Append(emitted_2,
                  [model |-> "net", port |-> "receive_out",
                   message |-> pending_messages_2[1]])
    /\ pending_messages_2' = Tail(pending_messages_2)
    /\ UNCHANGED <<qos_vars, transport_vars, dds_vars, rmw_vars, kernel_vars,
                 composition_vars, late_vars>>

DetNext ==
    \/ \E kind \in MessageKinds : DetExtTransition(kind)
    \/ DetInternal1
    \/ DetInternal2

SpecDeterminism == TransportInit /\ [][DetNext]_vars

(* C6: two runs given the same inputs emit the same output events: once     *)
(* both have emitted all they queued, their output sequences are equal.     *)
C6_SameOutputs ==
    (pending_messages = <<>> /\ pending_messages_2 = <<>>)
        => emitted = emitted_2

----------------------------------------------------------------------------
(* DDSParticipant: discovery, matching, leases and the data path.           *)
(* time.time() is counted in ticks of 100 ms.                                *)

(* self.discovery_period and self.heartbeat_period: 0.1 s each *)
discovery_period == 1

heartbeat_period == 1

(* self.lease_duration: the configured lease, as a number of ticks *)
lease_duration == 1

MaxTicks == 2

MaxLocal == 2

MaxSeq == 2

domain_id == 0

BestEffortProfile == [DefaultQoSProfile EXCEPT !.reliability = "BEST_EFFORT"]

ExclusiveProfile == [DefaultQoSProfile EXCEPT !.ownership = "EXCLUSIVE"]

(* EndpointInfo as _create_discovery_message builds it: participant_guid is *)
(* not passed and keeps its default, the empty string.                      *)
EndpointInfo(guid, topic, kind, qos) ==
    [guid |-> guid, participant_guid |-> <<>>, topic |-> topic,
     kind |-> kind, qos |-> qos, partition |-> qos.partition]

DiscoveryMessage(guid, endpoints) ==
    [participant_guid |-> guid, domain_id |-> domain_id,
     endpoints |-> endpoints, lease_duration |-> lease_duration]

(* The other participants of the domain and the endpoints they hold. *)
RemoteParticipants == {"P1", "P2"}

RemoteEndpoints(p) ==
    IF p = "P1"
    THEN << EndpointInfo(<<"P1", 1>>, "t1", "writer", DefaultQoSProfile),
            EndpointInfo(<<"P1", 2>>, "t1", "reader", DefaultQoSProfile) >>
    ELSE << EndpointInfo(<<"P2", 1>>, "t2", "writer", BestEffortProfile) >>

(* dict helpers: d[k] = v, and d restricted to the keys outside ks *)
Put(d, k, v) ==
    IF k \in DOMAIN d THEN [d EXCEPT ![k] = v] ELSE d @@ (k :> v)

Without(d, ks) ==
    IF DOMAIN d \subseteq ks THEN <<>> ELSE [k \in DOMAIN d \ ks |-> d[k]]

(* the lists of a topic -> list dict, one after the other *)
RECURSIVE Flatten(_, _)
Flatten(d, topics) ==
    IF topics = {} THEN <<>>
    ELSE LET t == CHOOSE x \in topics : TRUE
         IN d[t] \o Flatten(d, topics \ {t})

get_all_writers == Flatten(local_writers, Topics)

get_all_readers == Flatten(local_readers, Topics)

EndpointInfos(entities, kind) ==
    [i \in 1..Len(entities) |->
        EndpointInfo(entities[i].guid, entities[i].topic_name, kind,
                     entities[i].qos)]

create_discovery_message ==
    DiscoveryMessage(participant_guid,
                     EndpointInfos(get_all_writers, "writer")
                         \o EndpointInfos(get_all_readers, "reader"))

Guids(entities) == {entities[i].guid : i \in 1..Len(entities)}

create_heartbeat_message ==
    [type |-> "heartbeat", participant_guid |-> participant_guid,
     alive_writers |-> Guids(get_all_writers),
     alive_readers |-> Guids(get_all_readers)]

(* an add that takes the guid out again when it is already in the set *)
AddMatch_toggle(matched, local, remote) ==
    IF local \in DOMAIN matched
    THEN [matched EXCEPT ![local] =
              IF remote \in @ THEN @ \ {remote} ELSE @ \cup {remote}]
    ELSE matched @@ (local :> {remote})

(* matched_endpoints[local].add(remote), creating the set on first use *)
AddMatch(matched, local, remote) ==
    IF local \in DOMAIN matched
    THEN [matched EXCEPT ![local] = @ \cup {remote}]
    ELSE matched @@ (local :> {remote})

(* the loops of _check_endpoint_matching over the local readers (writers)   *)
(* of the remote endpoint's topic                                           *)
RECURSIVE MatchReaders(_, _, _)
MatchReaders(matched, readers, remote_endpoint) ==
    IF readers = <<>> THEN matched
    ELSE LET reader == Head(readers)
             next == IF qos_match(remote_endpoint.qos, reader.qos)
                     THEN AddMatch(matched, reader.guid, remote_endpoint.guid)
                     ELSE matched
         IN MatchReaders(next, Tail(readers), remote_endpoint)

RECURSIVE MatchWriters(_, _, _)
MatchWriters(matched, writers, remote_endpoint) ==
    IF writers = <<>> THEN matched
    ELSE LET writer == Head(writers)
             next == IF qos_match(writer.qos, remote_endpoint.qos)
                     THEN AddMatch(matched, writer.guid, remote_endpoint.guid)
                     ELSE matched
         IN MatchWriters(next, Tail(writers), remote_endpoint)

(* DDSParticipant._check_endpoint_matching *)
check_endpoint_matching(matched, remote_endpoint) ==
    IF remote_endpoint.kind = "writer"
    THEN MatchReaders(matched, local_readers[remote_endpoint.topic],
                      remote_endpoint)
    ELSE IF remote_endpoint.kind = "reader"
    THEN MatchWriters(matched, local_writers[remote_endpoint.topic],
                      remote_endpoint)
    ELSE matched

(* the endpoint loop of _process_discovery_message; the result is the pair  *)
(* of discovered_endpoints and matched_endpoints                            *)
RECURSIVE ProcessEndpoints(_, _, _)
ProcessEndpoints(endpoints, discovered, matched) ==
    IF endpoints = <<>> THEN <<discovered, matched>>
    ELSE LET endpoint == Head(endpoints)
         IN ProcessEndpoints(Tail(endpoints),
                             Put(discovered, endpoint.guid, endpoint),
                             check_endpoint_matching(matched, endpoint))

ParticipantInfo(msg, current_time) ==
    [guid |-> msg.participant_guid, domain_id |-> msg.domain_id,
     lease_expiry |-> current_time + msg.lease_duration]

(* _process_discovery_message without the check for the own guid *)
process_discovery_message_own_too(msg) ==
    IF FALSE
    THEN /\ last_discovery' = "self"
         /\ UNCHANGED <<discovered_participants, discovered_endpoints,
                        matched_endpoints>>
    ELSE LET result == ProcessEndpoints(msg.endpoints, discovered_endpoints,
                                        matched_endpoints)
         IN /\ discovered_participants' =
                   Put(discovered_participants, msg.participant_guid,
                       ParticipantInfo(msg, wallclock))
            /\ discovered_endpoints' = result[1]
            /\ matched_endpoints' = result[2]
            /\ last_discovery' =
                   IF \E x \in DOMAIN matched_endpoints :
                          \E i \in 1..Len(msg.endpoints) :
                              msg.endpoints[i].guid \in matched_endpoints[x]
                   THEN "again" ELSE "first"

(* DDSParticipant._process_discovery_message *)
process_discovery_message(msg) ==
    IF msg.participant_guid = participant_guid
    THEN /\ last_discovery' = "self"
         /\ UNCHANGED <<discovered_participants, discovered_endpoints,
                        matched_endpoints>>
    ELSE LET result == ProcessEndpoints(msg.endpoints, discovered_endpoints,
                                        matched_endpoints)
         IN /\ discovered_participants' =
                   Put(discovered_participants, msg.participant_guid,
                       ParticipantInfo(msg, wallclock))
            /\ discovered_endpoints' = result[1]
            /\ matched_endpoints' = result[2]
            /\ last_discovery' =
                   IF \E x \in DOMAIN matched_endpoints :
                          \E i \in 1..Len(msg.endpoints) :
                              msg.endpoints[i].guid \in matched_endpoints[x]
                   THEN "again" ELSE "first"

(* the readers _process_data_message delivers a message to *)
DeliveredTo(msg) ==
    {r \in Guids(get_all_readers) :
        r \in DOMAIN matched_endpoints
        /\ msg.writer_guid \in matched_endpoints[r]}

(* DDSParticipant._process_data_message: the callbacks it runs and the     *)
(* dds_data_received events it logs; self.state is left as it is           *)
process_data_message(msg) ==
    {[reader_guid |-> r, writer_guid |-> msg.writer_guid,
      sequence_number |-> msg.sequence_number] : r \in DeliveredTo(msg)}

(* DataWriter / DataReader with a fresh guid *)
NewGuid == <<LocalParticipant, Len(get_all_writers) + Len(get_all_readers) + 1>>

DDSEntity(topic, qos) == [guid |-> NewGuid, topic_name |-> topic, qos |-> qos]

(* DDSParticipant.create_writer *)
create_writer(topic, writer_qos) ==
    LET writer == DDSEntity(topic, writer_qos)
    IN /\ local_writers' =
              [local_writers EXCEPT ![topic] = Append(@, writer)]
       /\ sequence_numbers' = Put(sequence_numbers, writer.guid, 0)
       /\ phase' = "discovering"
       /\ UNCHANGED <<local_readers, dds_pending_messages>>

(* DDSParticipant.create_reader *)
create_reader(topic, reader_qos) ==
    LET reader == DDSEntity(topic, reader_qos)
    IN /\ local_readers' =
              [local_readers EXCEPT ![topic] = Append(@, reader)]
       /\ phase' = "discovering"
       /\ UNCHANGED <<local_writers, sequence_numbers, dds_pending_messages>>

(* write_data that leaves the sequence counter as it is *)
write_data_same_number(writer_guid) ==
    IF writer_guid \notin Guids(get_all_writers)
    THEN UNCHANGED <<local_writers, local_readers, sequence_numbers,
                     dds_pending_messages, phase>>
    ELSE LET writer == CHOOSE w \in
                           {get_all_writers[i] : i \in 1..Len(get_all_writers)} :
                           w.guid = writer_guid
             dds_msg == [writer_guid |-> writer_guid,
                         sequence_number |-> sequence_numbers[writer_guid],
                         topic |-> writer.topic_name]
         IN /\ Len(dds_pending_messages) < MaxSeq
            /\ sequence_numbers' =
                   [sequence_numbers EXCEPT ![writer_guid] = @]
            /\ dds_pending_messages' =
                   IF writer_guid \in DOMAIN matched_endpoints
                   THEN Append(dds_pending_messages, dds_msg)
                   ELSE dds_pending_messages
            /\ UNCHANGED <<local_writers, local_readers, phase>>

(* DDSParticipant.write_data *)
write_data(writer_guid) ==
    IF writer_guid \notin Guids(get_all_writers)
    THEN UNCHANGED <<local_writers, local_readers, sequence_numbers,
                     dds_pending_messages, phase>>
    ELSE LET writer == CHOOSE w \in
                           {get_all_writers[i] : i \in 1..Len(get_all_writers)} :
                           w.guid = writer_guid
             dds_msg == [writer_guid |-> writer_guid,
                         sequence_number |-> sequence_numbers[writer_guid],
                         topic |-> writer.topic_name]
         IN /\ sequence_numbers[writer_guid] < MaxSeq
            /\ sequence_numbers' =
                   [sequence_numbers EXCEPT ![writer_guid] = @ + 1]
            /\ dds_pending_messages' =
                   IF writer_guid \in DOMAIN matched_endpoints
                   THEN Append(dds_pending_messages, dds_msg)
                   ELSE dds_pending_messages
            /\ UNCHANGED <<local_writers, local_readers, phase>>

(* The commands the RMW layer sends on rmw_command_in. *)
UnknownHandle == <<"none", 0>>

Command(type, topic, qos) ==
    [type |-> type, topic |-> topic, qos |-> qos,
     writer_handle |-> UnknownHandle]

WriteCommand(writer_handle) ==
    [type |-> "write_data", topic |-> "t1", qos |-> DefaultQoSProfile,
     writer_handle |-> writer_handle]

RmwCommands ==
    {Command("create_writer", "t1", DefaultQoSProfile),
     Command("create_reader", "t1", DefaultQoSProfile),
     Command("create_reader", "t1", ExclusiveProfile),
     Command("create_reader", "t2", DefaultQoSProfile)}
    \cup {WriteCommand(h) : h \in Guids(get_all_writers) \cup {UnknownHandle}}

(* DDSParticipant._process_rmw_command *)
process_rmw_command(command) ==
    IF command.type = "create_writer"
    THEN /\ Len(get_all_writers) + Len(get_all_readers) < MaxLocal
         /\ create_writer(command.topic, command.qos)
    ELSE IF command.type = "create_reader"
    THEN /\ Len(get_all_writers) + Len(get_all_readers) < MaxLocal
         /\ create_reader(command.topic, command.qos)
    ELSE write_data(command.writer_handle)

(* The messages that arrive on discovery_in and data_in. *)
DiscoveryInputs ==
    {DiscoveryMessage(<<p, 0>>, RemoteEndpoints(p)) : p \in RemoteParticipants}
    \cup {create_discovery_message}

AllRemoteEndpoints ==
    UNION {{RemoteEndpoints(p)[i] : i \in 1..Len(RemoteEndpoints(p))} :
               p \in RemoteParticipants}

RemoteWriters == {e.guid : e \in {x \in AllRemoteEndpoints : x.kind = "writer"}}

DataInputs == [writer_guid : RemoteWriters, sequence_number : {0}]

(* DDSParticipant.extTransition with a message on discovery_in *)
ExtDiscovery(msg) ==
    /\ dds_raised = <<>>
    /\ ta # <<>>
    /\ process_discovery_message(msg)
    /\ ta' = <<>>
    /\ UNCHANGED <<phase, initialized, local_writers, local_readers,
                   dds_pending_messages, last_discovery_time,
                   last_heartbeat_time, sequence_numbers, wallclock>>
    /\ UNCHANGED <<qos_vars, transport_vars, run2_vars, rmw_vars, kernel_vars,
                 composition_vars, late_vars>>

(* DDSParticipant.extTransition with a message on data_in *)
ExtData(msg) ==
    /\ dds_raised = <<>>
    /\ ta # <<>>
    /\ process_data_message(msg) \subseteq
           [reader_guid : Guids(get_all_readers), writer_guid : RemoteWriters,
            sequence_number : {0}]
    /\ ta' = <<>>
    /\ last_discovery' = "none"
    /\ UNCHANGED <<dds_state, wallclock>>
    /\ UNCHANGED <<qos_vars, transport_vars, run2_vars, rmw_vars, kernel_vars,
                 composition_vars, late_vars>>

(* DDSParticipant.extTransition with a command on rmw_command_in *)
ExtRmwCommand(command) ==
    /\ dds_raised = <<>>
    /\ ta # <<>>
    /\ process_rmw_command(command)
    /\ ta' = <<>>
    /\ UNCHANGED <<initialized, discovered_participants, discovered_endpoints,
                   matched_endpoints, last_discovery_time,
                   last_heartbeat_time, wallclock>>
    /\ last_discovery' = "none"
    /\ UNCHANGED <<qos_vars, transport_vars, run2_vars, rmw_vars, kernel_vars,
                 composition_vars, late_vars>>

Min(a, b) == IF a <= b THEN a ELSE b

(* DDSParticipant.timeAdvance: the value it returns, in microseconds *)
time_advance(current_time) ==
    LET time_since_discovery == current_time - last_discovery_time
        time_since_heartbeat == current_time - last_heartbeat_time
    IN IF phase = "initializing" THEN 10000
       ELSE IF phase = "active"
       THEN IF time_since_discovery >= discovery_period THEN 1000
            ELSE IF time_since_heartbeat >= heartbeat_period THEN 1000
            ELSE IF dds_pending_messages # <<>> THEN 100
            ELSE Min(discovery_period - time_since_discovery,
                     heartbeat_period - time_since_heartbeat) * 100000
       ELSE IF phase \in {"discovering", "heartbeat", "sending_data"}
       THEN 1000
       ELSE INFINITY

(* DDSParticipant.timeAdvance: the phase it leaves in self.state *)
time_advance_phase(current_time) ==
    IF phase = "active"
    THEN IF current_time - last_discovery_time >= discovery_period
         THEN "discovering"
         ELSE IF current_time - last_heartbeat_time >= heartbeat_period
         THEN "heartbeat"
         ELSE IF dds_pending_messages # <<>> THEN "sending_data"
         ELSE phase
    ELSE phase

(* The kernel asks the participant for its time advance. *)
TimeAdvance ==
    /\ dds_raised = <<>>
    /\ ta = <<>>
    /\ ta' = <<time_advance(wallclock)>>
    /\ phase' = time_advance_phase(wallclock)
    /\ UNCHANGED <<initialized, discovered_participants, discovered_endpoints,
                   local_writers, local_readers, matched_endpoints,
                   dds_pending_messages, last_discovery_time,
                   last_heartbeat_time, sequence_numbers, wallclock>>
    /\ last_discovery' = "none"
    /\ UNCHANGED <<qos_vars, transport_vars, run2_vars, rmw_vars, kernel_vars,
                 composition_vars, late_vars>>

(* msg.<name> for a msg that is a dict, as write_data builds it: a dict has  *)
(* its keys as items, not as attributes.                                    *)
DictAttributes ==
    {"clear", "copy", "get", "items", "keys", "pop", "popitem", "setdefault",
     "update", "values"}

DictHasAttribute(name) == name \in DictAttributes

(* DDSParticipant.outputFnc: the returned dict, <<>> for {}, or the         *)
(* exception it raises: in phase sending_data the message is popped and     *)
(* msg.writer_guid is evaluated for the trace event before the return.      *)
output_fnc ==
    IF phase = "initializing" /\ ~initialized THEN <<>>
    ELSE IF phase = "discovering"
    THEN <<[port |-> "discovery_out", value |-> create_discovery_message]>>
    ELSE IF phase = "heartbeat"
    THEN <<[port |-> "discovery_out", value |-> create_heartbeat_message]>>
    ELSE IF phase = "sending_data" /\ dds_pending_messages # <<>>
    THEN IF DictHasAttribute("writer_guid")
         THEN <<[port |-> "data_out", value |-> Head(dds_pending_messages)]>>
         ELSE <<[raised |-> AttributeError]>>
    ELSE <<>>

(* what outputFnc leaves in state['pending_messages']: pop(0) when sending *)
output_fnc_pending ==
    IF phase = "sending_data" /\ dds_pending_messages # <<>>
    THEN Tail(dds_pending_messages)
    ELSE dds_pending_messages

(* DDSParticipant.intTransition *)
int_transition(current_time) ==
    IF phase = "initializing"
    THEN /\ initialized' = TRUE
         /\ phase' = "active"
         /\ last_discovery_time' = current_time
         /\ last_heartbeat_time' = current_time
    ELSE IF phase = "discovering"
    THEN /\ last_discovery_time' = current_time
         /\ phase' = "active"
         /\ UNCHANGED <<initialized, last_heartbeat_time>>
    ELSE IF phase = "heartbeat"
    THEN /\ last_heartbeat_time' = current_time
         /\ phase' = "active"
         /\ UNCHANGED <<initialized, last_discovery_time>>
    ELSE IF phase = "sending_data"
    THEN /\ phase' = "active"
         /\ UNCHANGED <<initialized, last_discovery_time,
                        last_heartbeat_time>>
    ELSE UNCHANGED <<initialized, phase, last_discovery_time,
                     last_heartbeat_time>>

(* outputFnc has returned a dict *)
Returned(output) ==
    IF output = <<>> THEN TRUE ELSE "port" \in DOMAIN output[1]

(* what a returned dict holds for data_out, <<>> when nothing *)
DataOut(output) ==
    IF output = <<>> THEN <<>>
    ELSE IF output[1].port = "data_out" THEN <<output[1].value>> ELSE <<>>

(* The participant is imminent: outputFnc, then intTransition. *)
Internal ==
    /\ dds_raised = <<>>
    /\ ta # <<>>
    /\ ta[1] # INFINITY
    /\ Returned(output_fnc)
    /\ data_out' = DataOut(output_fnc)
    /\ dds_pending_messages' = output_fnc_pending
    /\ int_transition(wallclock)
    /\ ta' = <<>>
    /\ UNCHANGED <<discovered_participants, discovered_endpoints,
                   local_writers, local_readers, matched_endpoints,
                   sequence_numbers, wallclock>>
    /\ last_discovery' = "none"
    /\ UNCHANGED dds_raised
    /\ UNCHANGED <<qos_vars, transport_vars, run2_vars, rmw_vars, kernel_vars,
                   composition_vars, dataout_rest>>

(* The participant is imminent and outputFnc raises: the message is popped, *)
(* the exception leaves the simulator and the run is over.                  *)
InternalRaises ==
    /\ dds_raised = <<>>
    /\ ta # <<>>
    /\ ta[1] # INFINITY
    /\ ~Returned(output_fnc)
    /\ dds_raised' = <<output_fnc[1].raised>>
    /\ dds_pending_messages' = output_fnc_pending
    /\ UNCHANGED <<phase, initialized, discovered_participants,
                   discovered_endpoints, local_writers, local_readers,
                   matched_endpoints, last_discovery_time,
                   last_heartbeat_time, sequence_numbers, wallclock, ta>>
    /\ last_discovery' = "none"
    /\ UNCHANGED data_out
    /\ UNCHANGED <<qos_vars, transport_vars, run2_vars, rmw_vars, kernel_vars,
                   composition_vars, dataout_rest>>

(* DDSParticipant.cleanup_expired_participants with the lease compared the *)
(* other way round                                                          *)
cleanup_expired_participants_state_early ==
    LET current_time == wallclock
        expired == {guid \in DOMAIN discovered_participants :
                       current_time < discovered_participants[guid].lease_expiry}
    IN [discovered_participants |->
            Without(discovered_participants, expired),
        discovered_endpoints |-> discovered_endpoints,
        matched_endpoints |-> matched_endpoints]

(* DDSParticipant.cleanup_expired_participants: the three dicts as it       *)
(* leaves them                                                              *)
cleanup_expired_participants_state ==
    LET current_time == wallclock
        expired == {guid \in DOMAIN discovered_participants :
                       current_time > discovered_participants[guid].lease_expiry}
        to_remove == {ep_guid \in DOMAIN discovered_endpoints :
                         discovered_endpoints[ep_guid].participant_guid
                             \in expired}
    IN [discovered_participants |->
            Without(discovered_participants, expired),
        discovered_endpoints |-> Without(discovered_endpoints, to_remove),
        matched_endpoints |->
            IF DOMAIN matched_endpoints = {} THEN <<>>
            ELSE [local_guid \in DOMAIN matched_endpoints |->
                     matched_endpoints[local_guid] \ to_remove]]

(* DDSParticipant.cleanup_expired_participants *)
cleanup_expired_participants ==
    LET swept_state == cleanup_expired_participants_state
    IN /\ discovered_participants' = swept_state.discovered_participants
       /\ discovered_endpoints' = swept_state.discovered_endpoints
       /\ matched_endpoints' = swept_state.matched_endpoints
       /\ UNCHANGED <<phase, initialized, local_writers, local_readers,
                      dds_pending_messages, last_discovery_time,
                      last_heartbeat_time, sequence_numbers, wallclock, ta>>
       /\ last_discovery' = "none"
       /\ UNCHANGED <<qos_vars, transport_vars, run2_vars, rmw_vars, kernel_vars,
                 composition_vars, late_vars>>

(* time.time() moves on *)
Tick ==
    /\ wallclock < EpochStart + MaxTicks
    /\ wallclock' = wallclock + 1
    /\ last_discovery' = "none"
    /\ UNCHANGED <<dds_state, ta>>
    /\ UNCHANGED <<qos_vars, transport_vars, run2_vars, rmw_vars, kernel_vars,
                 composition_vars, late_vars>>

ParticipantInit ==
    ParticipantStart /\ QoSIdle /\ TransportIdle /\ RmwIdle /\ KernelIdle
    /\ CompositionIdle /\ LateIdle

ParticipantNext ==
    \/ TimeAdvance
    \/ Internal
    \/ InternalRaises
    \/ \E msg \in DiscoveryInputs : ExtDiscovery(msg)
    \/ \E msg \in DataInputs : ExtData(msg)
    \/ \E command \in RmwCommands : ExtRmwCommand(command)
    \/ cleanup_expired_participants
    \/ Tick

SpecParticipant == ParticipantInit /\ [][ParticipantNext]_vars

----------------------------------------------------------------------------
(* Properties of the participant.                                           *)

LocalEndpoints ==
    {[guid |-> get_all_writers[i].guid, kind |-> "writer",
      topic |-> get_all_writers[i].topic_name, qos |-> get_all_writers[i].qos] :
         i \in 1..Len(get_all_writers)}
    \cup
    {[guid |-> get_all_readers[i].guid, kind |-> "reader",
      topic |-> get_all_readers[i].topic_name, qos |-> get_all_readers[i].qos] :
         i \in 1..Len(get_all_readers)}

Matched(x, g) == x \in DOMAIN matched_endpoints /\ g \in matched_endpoints[x]

(* C1: the match table is symmetric in every reachable state: when g is in  *)
(* the match set of x, x is in the match set of g.                          *)
C1_MatchTableSymmetric ==
    \A x \in DOMAIN matched_endpoints :
        \A g \in matched_endpoints[x] : Matched(g, x)

(* the participants whose last announcement is older than their lease *)
Expired ==
    {guid \in DOMAIN discovered_participants :
        wallclock > discovered_participants[guid].lease_expiry}

(* the endpoints a remote participant announces *)
EndpointsOf(guid) ==
    {RemoteEndpoints(guid[1])[i].guid : i \in 1..Len(RemoteEndpoints(guid[1]))}

Forgotten(guid) ==
    /\ guid \notin DOMAIN discovered_participants
    /\ EndpointsOf(guid) \cap DOMAIN discovered_endpoints = {}
    /\ \A x \in DOMAIN matched_endpoints :
           EndpointsOf(guid) \cap matched_endpoints[x] = {}

(* C2: right after a lease sweep, every participant that was not            *)
(* re-announced for more than its lease is gone from the discovered         *)
(* participants, its endpoints are gone from the discovered endpoints, and  *)
(* none of them is in any match set.                                        *)
C2_SweepForgetsExpired ==
    [][cleanup_expired_participants =>
           \A guid \in Expired : Forgotten(guid)']_vars

(* the full check, writer's profile offered against reader's requested *)
FullyCompatible(local, remote) ==
    /\ local.kind # remote.kind
    /\ local.topic = remote.topic
    /\ IF local.kind = "writer"
       THEN check_compatibility(local.qos, remote.qos).compatible
       ELSE check_compatibility(remote.qos, local.qos).compatible

MatchedIffCompatible(p) ==
    \A local \in LocalEndpoints :
        \A i \in 1..Len(RemoteEndpoints(p)) :
            Matched(local.guid, RemoteEndpoints(p)[i].guid)
                <=> FullyCompatible(local, RemoteEndpoints(p)[i])

(* C3: after a discovery message is processed, a local endpoint and an      *)
(* endpoint the message advertises are matched if and only if they are of   *)
(* opposite kind, on the same topic, and the full compatibility check of    *)
(* the writer's profile against the reader's returns compatible.            *)
C3_MatchedIffFullyCompatible ==
    [][\A p \in RemoteParticipants :
           ExtDiscovery(DiscoveryMessage(<<p, 0>>, RemoteEndpoints(p)))
               => MatchedIffCompatible(p)']_vars

(* C7: evaluating the time advance changes no state variable of the model,  *)
(* the phase included.                                                      *)
C7_TimeAdvancePure == [][TimeAdvance => UNCHANGED dds_state]_vars

----------------------------------------------------------------------------
(* RmwLayer: publication and the take attempts that deliver a message.      *)

MaxRmwMessages == 2

(* "Max retries": the delivery_attempts a failed take may still add to *)
max_retries == 5

RmwNodes == {"n1", "n2"}

(* ROS2Message(message_id, qos_profile, topic_name) *)
ROS2Message(message_id, reliability) ==
    [message_id |-> message_id, topic_name |-> "/topic",
     reliability |-> reliability, delivery_attempts |-> 0,
     destination_node |-> "None"]

(* RmwLayer.register_subscriber *)
register_subscriber(node_name) ==
    /\ Len(subscriber_contexts) < Cardinality(RmwNodes)
    /\ subscriber_contexts' = Append(subscriber_contexts, node_name)
    /\ UNCHANGED <<rmw_phase, pending_pub_msgs, published_msgs,
                   failed_deliveries, take_attempts, successful_takes,
                   rmw_output, rmw_sent>>
    /\ UNCHANGED <<qos_vars, transport_vars, run2_vars, dds_vars, kernel_vars,
                 composition_vars, late_vars>>

(* RmwLayer.extTransition *)
RmwExtTransition(reliability) ==
    /\ rmw_sent < MaxRmwMessages
    /\ rmw_sent' = rmw_sent + 1
    /\ pending_pub_msgs' =
           Append(pending_pub_msgs, ROS2Message(rmw_sent + 1, reliability))
    /\ rmw_phase' = IF rmw_phase = "idle" THEN "publishing" ELSE rmw_phase
    /\ UNCHANGED <<published_msgs, failed_deliveries, subscriber_contexts,
                   take_attempts, successful_takes, rmw_output>>
    /\ UNCHANGED <<qos_vars, transport_vars, run2_vars, dds_vars, kernel_vars,
                 composition_vars, late_vars>>

(* RmwLayer.timeAdvance, in microseconds *)
RmwTimeAdvance ==
    IF rmw_phase = "publishing" /\ pending_pub_msgs # <<>> THEN 100
    ELSE IF rmw_phase = "delivering" /\ published_msgs # <<>> THEN 1000
    ELSE IF rmw_phase = "idle"
            /\ (published_msgs # <<>> \/ failed_deliveries # <<>>)
    THEN 500
    ELSE INFINITY

(* RmwLayer.intTransition, on the lists outputFnc left *)
RmwIntTransition(pending) ==
    IF rmw_phase = "publishing" /\ pending # <<>>
    THEN /\ pending_pub_msgs' = Tail(pending)
         /\ rmw_phase' = IF Tail(pending) = <<>> THEN "idle" ELSE rmw_phase
    ELSE IF rmw_phase = "delivering"
    THEN /\ rmw_phase' = "idle"
         /\ pending_pub_msgs' = pending
    ELSE IF rmw_phase = "idle"
    THEN /\ rmw_phase' = IF published_msgs' # <<>> THEN "delivering"
                         ELSE IF pending # <<>> THEN "publishing"
                         ELSE rmw_phase
         /\ pending_pub_msgs' = pending
    ELSE UNCHANGED <<rmw_phase, pending_pub_msgs>>

(* RmwLayer.outputFnc in phase "delivering": one take attempt on the first  *)
(* published message, taken or not as random.random() falls                 *)
RmwDeliver(sub_node, taken) ==
    LET msg == published_msgs[1]
    IN /\ take_attempts' = take_attempts + 1
       /\ successful_takes' = successful_takes + (IF taken THEN 1 ELSE 0)
       /\ IF taken
          THEN /\ published_msgs' = Tail(published_msgs)
               /\ rmw_output' = <<[msg EXCEPT !.destination_node = sub_node]>>
          ELSE IF msg.delivery_attempts < max_retries
          THEN /\ published_msgs' =
                      [published_msgs EXCEPT ![1].delivery_attempts = @ + 1]
               /\ rmw_output' = <<>>
          ELSE /\ published_msgs' = Tail(published_msgs)
               /\ rmw_output' = <<>>

(* RmwLayer.outputFnc *)
RmwOutputFnc ==
    IF rmw_phase = "publishing" /\ pending_pub_msgs # <<>>
    THEN /\ published_msgs' = Append(published_msgs, pending_pub_msgs[1])
         /\ rmw_output' = <<>>
         /\ UNCHANGED <<take_attempts, successful_takes>>
    ELSE IF rmw_phase = "delivering" /\ published_msgs # <<>>
    THEN IF subscriber_contexts # <<>>
         THEN \E i \in 1..Len(subscriber_contexts), taken \in BOOLEAN :
                  RmwDeliver(subscriber_contexts[i], taken)
         ELSE /\ published_msgs' = Tail(published_msgs)
              /\ rmw_output' = <<>>
              /\ UNCHANGED <<take_attempts, successful_takes>>
    ELSE /\ rmw_output' = <<>>
         /\ UNCHANGED <<published_msgs, take_attempts, successful_takes>>

(* RmwLayer is imminent: outputFnc, then intTransition. *)
RmwInternal ==
    /\ RmwTimeAdvance # INFINITY
    /\ RmwOutputFnc
    /\ RmwIntTransition(pending_pub_msgs)
    /\ UNCHANGED <<failed_deliveries, subscriber_contexts, rmw_sent>>
    /\ UNCHANGED <<qos_vars, transport_vars, run2_vars, dds_vars, kernel_vars,
                 composition_vars, late_vars>>

RmwInit ==
    RmwStart /\ QoSIdle /\ TransportIdle /\ ParticipantIdle /\ KernelIdle
    /\ CompositionIdle /\ LateIdle

RmwNext ==
    \/ \E node_name \in RmwNodes : register_subscriber(node_name)
    \/ \E reliability \in QoSReliabilityPolicy : RmwExtTransition(reliability)
    \/ RmwInternal

SpecRmw == RmwInit /\ [][RmwNext]_vars

(* the first published message is RELIABLE and has used up its retries *)
RetriesExhausted ==
    /\ rmw_phase = "delivering"
    /\ published_msgs # <<>>
    /\ subscriber_contexts # <<>>
    /\ published_msgs[1].reliability = "RELIABLE"
    /\ published_msgs[1].delivery_attempts = max_retries

(* C11: a lost reliable message is retried a bounded number of times, and   *)
(* when the last attempt fails too, a delivery failure is recorded for its  *)
(* sender.                                                                  *)
C11_ExhaustedRetriesReported ==
    [][(RmwInternal /\ RetriesExhausted /\ rmw_output' = <<>>)
           => \E i \in 1..Len(failed_deliveries') :
                  failed_deliveries'[i].message_id
                      = published_msgs[1].message_id]_vars

----------------------------------------------------------------------------
(* The write path of the participant.                                       *)

NoMatchedReaders(writer_guid) ==
    writer_guid \notin DOMAIN matched_endpoints
    \/ matched_endpoints[writer_guid] = {}

(* C12: a write through a local writer that has no matched readers leaves   *)
(* the pending messages and the writer's sequence counter as they were.     *)
C12_UnmatchedWriteIsNoOp ==
    [][\A h \in Guids(get_all_writers) :
           (NoMatchedReaders(h) /\ ExtRmwCommand(WriteCommand(h)))
               => UNCHANGED <<dds_pending_messages, sequence_numbers>>]_vars

(* C13: for each writer the sequence numbers of the messages enqueued for   *)
(* the transport are strictly increasing in enqueue order: the queue is     *)
(* increasing per writer and every number in it is below the writer's       *)
(* counter, which the next message will carry.                              *)
C13_SequenceNumbersIncrease ==
    /\ \A i, j \in 1..Len(dds_pending_messages) :
           (i < j /\ dds_pending_messages[i].writer_guid
                        = dds_pending_messages[j].writer_guid)
               => dds_pending_messages[i].sequence_number
                      < dds_pending_messages[j].sequence_number
    /\ \A i \in 1..Len(dds_pending_messages) :
           dds_pending_messages[i].sequence_number
               < sequence_numbers[dds_pending_messages[i].writer_guid]

C13_Witness ==
    /\ Len(dds_pending_messages) = 2
    /\ dds_pending_messages[1].writer_guid = dds_pending_messages[2].writer_guid

----------------------------------------------------------------------------
(* The participant as the kernel runs it: an imminent participant is fired, *)
(* its time advance is evaluated after every transition, and time.time()    *)
(* moves on.  No model or layer calls cleanup_expired_participants, so its  *)
(* step has no fairness.                                                    *)
FairSpecParticipant ==
    /\ SpecParticipant
    /\ WF_vars(TimeAdvance)
    /\ WF_vars(Internal)
    /\ WF_vars(InternalRaises)
    /\ WF_vars(Tick)

(* C14: a participant that stops announcing is eventually evicted: once a   *)
(* discovered participant's lease has run out, it is either announced       *)
(* again or leaves discovered_participants.                                 *)
C14_SilentParticipantEvicted ==
    \A p \in RemoteParticipants :
        (<<p, 0>> \in Expired) ~> (<<p, 0>> \notin Expired)

(* C15: an endpoint that is gone is in no match entry: every guid in a      *)
(* match set, and every key, is a local endpoint or an endpoint of a        *)
(* participant that is still in discovered_participants.                    *)
C15_MatchTableHoldsLiveEndpoints ==
    LET live == {e.guid : e \in LocalEndpoints}
                \cup UNION {EndpointsOf(guid) :
                                guid \in DOMAIN discovered_participants}
    IN \A x \in DOMAIN matched_endpoints :
           x \in live /\ matched_endpoints[x] \subseteq live

(* the remote endpoint with the given guid, as its participant announces it *)
RemoteEndpoint(guid) == CHOOSE e \in AllRemoteEndpoints : e.guid = guid

(* C16: a data message is delivered only to local readers whose match set  *)
(* holds the message's writer, and never to a reader whose profile the      *)
(* full compatibility check rejects against that writer's.                  *)
C16_DeliveredOnlyToCompatibleMatched ==
    [][\A msg \in DataInputs :
           ExtData(msg) =>
               \A r \in LocalEndpoints :
                   r.guid \in DeliveredTo(msg) =>
                       /\ Matched(r.guid, msg.writer_guid)
                       /\ FullyCompatible(r, RemoteEndpoint(msg.writer_guid))]_vars

----------------------------------------------------------------------------
(* The couplings of the DDS layer: connectPorts(from, to) of ROS2System,    *)
(* MinimalSystem and RMWLayer, a port written <<model, port name>>.         *)

Participants == {"SystemDDSParticipant", "RMWParticipant"}

Couplings ==
    { << <<"SystemDDSParticipant", "data_out">>,
         <<"TransportMultiplexer", "data_in">> >>,
      << <<"TransportMultiplexer", "data_out">>,
         <<"SystemDDSParticipant", "data_in">> >>,
      << <<"RMWLayer", "dds_data_out">>, <<"TransportMultiplexer", "data_in">> >>,
      << <<"TransportMultiplexer", "data_out">>, <<"RMWLayer", "dds_data_in">> >>,
      << <<"RMWImplementation", "dds_out">>, <<"RMWParticipant", "data_in">> >>,
      << <<"RMWParticipant", "data_out">>, <<"RMWImplementation", "dds_in">> >>,
      << <<"RMWLayer", "dds_data_in">>, <<"RMWParticipant", "data_in">> >>,
      << <<"RMWParticipant", "data_out">>, <<"RMWLayer", "dds_data_out">> >> }

(* what the transport layer hands on: its input comes out of its output *)
TransportPath ==
    { << <<"TransportMultiplexer", "data_in">>,
         <<"TransportMultiplexer", "data_out">> >> }

(* the ports an event on one of the given ports can reach *)
RECURSIVE Reaches(_)
Reaches(ports) ==
    LET next == ports \cup {c[2] : c \in {w \in Couplings \cup TransportPath :
                                              w[1] \in ports}}
    IN IF next = ports THEN ports ELSE Reaches(next)

(* C17: every discovery broadcast a participant emits reaches the           *)
(* discovery input of every other participant.                              *)
C17_DiscoveryReachesAllParticipants ==
    [][(Internal /\ phase = "discovering")
           => \A p, q \in Participants :
                  p # q => <<q, "discovery_in">>
                               \in Reaches({<<p, "discovery_out">>})]_vars

----------------------------------------------------------------------------
(* Discovery messages that change nothing.                                  *)

(* C18: a discovery message that carries the participant's own guid leaves  *)
(* the discovered participants, the discovered endpoints and the match      *)
(* table unchanged.                                                         *)
C18_OwnDiscoveryIgnored ==
    [][ExtDiscovery(create_discovery_message)
           => UNCHANGED <<discovered_participants, discovered_endpoints,
                          matched_endpoints>>]_vars

(* the own message was processed while it announced a writer and a reader   *)
(* that would match each other                                              *)
C18_Witness ==
    /\ last_discovery = "self"
    /\ \E w, r \in LocalEndpoints :
           /\ w.kind = "writer"
           /\ r.kind = "reader"
           /\ w.topic = r.topic
           /\ qos_match(w.qos, r.qos)

(* a local endpoint and an announced one that _check_endpoint_matching pairs *)
Pairs(local, remote) ==
    /\ local.kind # remote.kind
    /\ local.topic = remote.topic
    /\ IF local.kind = "writer" THEN qos_match(local.qos, remote.qos)
       ELSE qos_match(remote.qos, local.qos)

AlreadyMatched(p) ==
    \A local \in LocalEndpoints :
        \A i \in 1..Len(RemoteEndpoints(p)) :
            Pairs(local, RemoteEndpoints(p)[i])
                => Matched(local.guid, RemoteEndpoints(p)[i].guid)

(* C19: announcing pairs again that are matched already leaves the match    *)
(* table exactly as it was.                                                 *)
C19_ReannouncementIdempotent ==
    [][\A p \in RemoteParticipants :
           (/\ last_discovery' # "none"
            /\ AlreadyMatched(p)
            /\ ExtDiscovery(DiscoveryMessage(<<p, 0>>, RemoteEndpoints(p))))
               => UNCHANGED matched_endpoints]_vars

(* an announcement was processed whose endpoints were in the table before *)
C19_Witness ==
    /\ last_discovery = "again"
    /\ \E p \in RemoteParticipants :
           /\ AlreadyMatched(p)
           /\ \E x \in DOMAIN matched_endpoints :
                  matched_endpoints[x] \cap EndpointsOf(<<p, 0>>) # {}

(* ------------------------------------------------------------------------ *)
(* The phase cycle                                                          *)
(* ------------------------------------------------------------------------ *)

BusyPhases == {"discovering", "heartbeat", "sending_data"}

(* the phase DDSParticipant.timeAdvance selects in phase active at          *)
(* current_time: the first of discovery, heartbeat and data that is due     *)
DuePhase(current_time) ==
    IF current_time - last_discovery_time >= discovery_period
    THEN "discovering"
    ELSE IF current_time - last_heartbeat_time >= heartbeat_period
    THEN "heartbeat"
    ELSE IF dds_pending_messages # <<>>
    THEN "sending_data"
    ELSE "active"

(* C20: once initialized, every change of the phase is either from active   *)
(* to the phase of the action that is due, or from one of discovering,      *)
(* heartbeat and sending_data back to active.                               *)
C20_PhaseCycle ==
    [][(initialized /\ phase' # phase)
           => \/ phase = "active" /\ phase' = DuePhase(wallclock)
              \/ phase \in BusyPhases /\ phase' = "active"]_vars

----------------------------------------------------------------------------
(* The per-policy rules of the compatibility check                          *)

(* the durability kind one ordinal level above d, PERSISTENT being the top *)
NextDurability(d) ==
    CASE d = "VOLATILE" -> "TRANSIENT_LOCAL"
      [] d = "TRANSIENT_LOCAL" -> "TRANSIENT"
      [] d = "TRANSIENT" -> "PERSISTENT"
      [] d = "PERSISTENT" -> "PERSISTENT"

RaiseDurability(profile) ==
    [profile EXCEPT !.durability = NextDurability(profile.durability)]

(* C21: a pair the check found compatible is still found compatible when    *)
(* the offered durability is one ordinal level higher and the requested     *)
(* profile is the same.                                                     *)
C21_DurabilityMonotone ==
    (qos_result # <<>> /\ qos_result[1].compatible)
        => check_compatibility(RaiseDurability(pub_qos), sub_qos).compatible

(* a compatible pair whose reader requests more than VOLATILE and whose     *)
(* writer's durability can still be raised                                  *)
C21_Witness ==
    /\ qos_result # <<>>
    /\ qos_result[1].compatible
    /\ sub_qos.durability = "TRANSIENT"
    /\ pub_qos.durability = "TRANSIENT"

(* C22: the lifespan dimension passes exactly when the offered lifespan is  *)
(* greater than or equal to the requested one, in the compatibility check   *)
(* and in the lifespan policy class alike.                                  *)
C22_LifespanIffOfferedAtLeastRequested ==
    /\ qos_result # <<>> =>
           ("lifespan" \notin Listed(qos_result[1].incompatible_policies)
                <=> Geq(pub_qos.lifespan, sub_qos.lifespan))
    /\ policy_result # <<>> =>
           (policy_result[1].lifespan
                <=> Geq(pub_qos.lifespan, sub_qos.lifespan))

(* '*' in a pattern as a prefix/suffix glob: the name starts with what the  *)
(* pattern has before its first '*' and ends with what it has after its     *)
(* last one; a pattern without '*' matches the equal name only              *)
GlobMatches(pattern, name) ==
    IF HasStar(pattern)
    THEN StartsWith(name, SplitFirst(pattern))
         /\ EndsWith(name, SplitLast(pattern))
    ELSE pattern = name

PartitionRule(offered, requested) ==
    \/ offered.partition = {} /\ requested.partition = {}
    \/ \E pattern \in offered.partition : \E name \in requested.partition :
           GlobMatches(pattern, name)

(* C23: the partition dimension passes exactly when both partition sets are *)
(* empty or some offered pattern matches some requested name, and a pair    *)
(* _qos_match accepts satisfies the same rule.                              *)
C23_PartitionIffPatternMatchesName ==
    /\ qos_result # <<>> =>
           ("partition" \notin Listed(qos_result[1].incompatible_policies)
                <=> PartitionRule(pub_qos, sub_qos))
    /\ match_result # <<>> =>
           (match_result[1] => PartitionRule(pub_qos, sub_qos))

(* the history rule for a result ok of offered against requested *)
HistoryRule(ok, offered, requested) ==
    /\ (requested.history = "KEEP_ALL" /\ ok) => offered.history = "KEEP_ALL"
    /\ (offered.history = "KEEP_LAST" /\ requested.history = "KEEP_LAST")
           => (ok <=> offered.depth >= requested.depth)

(* C24: a requested KEEP_ALL passes the history dimension only with an      *)
(* offered KEEP_ALL, and two KEEP_LAST histories pass exactly when the      *)
(* offered depth is at least the requested depth, in the compatibility      *)
(* check and in the history policy class alike.                             *)
C24_HistoryRule ==
    /\ qos_result # <<>> =>
           HistoryRule("history"
                           \notin Listed(qos_result[1].incompatible_policies),
                       pub_qos, sub_qos)
    /\ policy_result # <<>> =>
           HistoryRule(policy_result[1].history, pub_qos, sub_qos)

(* the reader requests RELIABLE and the writer offers BEST_EFFORT *)
ReliabilityMismatch(offered, requested) ==
    requested.reliability = "RELIABLE" /\ offered.reliability = "BEST_EFFORT"

C26_CheckIsTotal ==
    qos_result # <<>> => "compatible" \in DOMAIN qos_result[1]

----------------------------------------------------------------------------
(* Construction of QoS profiles and their use by endpoints                  *)

ValueError == "ValueError"

(* the depths a profile is constructed with *)
Depths == {0 - 1, 0, 1}

(* QoSProfile(history=h, depth=d) of core/dataTypes.py: a dataclass without *)
(* __post_init__, every other field at its default                          *)
CoreQoSProfile(h, d) == [DefaultQoSProfile EXCEPT !.history = h, !.depth = d]

(* QoSProfile(history=h, depth=d) of qos/policies.py: __post_init__ raises  *)
(* ValueError for KEEP_LAST with depth <= 0; the timing fields stay None    *)
PolicyQoSProfile(h, d) ==
    IF h = "KEEP_LAST" /\ d <= 0
    THEN [raised |-> ValueError]
    ELSE [reliability |-> "RELIABLE", durability |-> "VOLATILE",
          history |-> h, depth |-> d, liveliness |-> "AUTOMATIC",
          ownership |-> "SHARED", deadline |-> None, lifespan |-> None,
          liveliness_lease_duration |-> None]

ConstructCoreProfile ==
    /\ \E h \in QoSHistoryPolicy : \E d \in Depths :
           constructed' = <<CoreQoSProfile(h, d)>>
    /\ UNCHANGED <<pub_qos, sub_qos, qos_result, policy_result, match_result>>
    /\ UNCHANGED <<transport_vars, run2_vars, dds_vars, rmw_vars, kernel_vars,
                 composition_vars, late_vars>>

ConstructPolicyProfile ==
    /\ \E h \in QoSHistoryPolicy : \E d \in Depths :
           constructed' = <<PolicyQoSProfile(h, d)>>
    /\ UNCHANGED <<pub_qos, sub_qos, qos_result, policy_result, match_result>>
    /\ UNCHANGED <<transport_vars, run2_vars, dds_vars, rmw_vars, kernel_vars,
                 composition_vars, late_vars>>

(* The constructed profile is given to the participant in a create_writer   *)
(* or create_reader command.  create_writer and create_reader read          *)
(* qos.partition first, which only a profile of core/dataTypes.py has.      *)
CreateEndpointConstructed ==
    /\ constructed # <<>>
    /\ "partition" \in DOMAIN constructed[1]
    /\ \E type \in {"create_writer", "create_reader"} :
           ExtRmwCommand(Command(type, "t1", constructed[1]))

ConstructionInit ==
    QoSIdle /\ TransportIdle /\ ParticipantIdle /\ RmwIdle /\ KernelIdle
    /\ CompositionIdle /\ LateIdle

ConstructionNext ==
    \/ ConstructCoreProfile
    \/ ConstructPolicyProfile
    \/ TimeAdvance
    \/ Internal
    \/ CreateEndpointConstructed

SpecConstruction == ConstructionInit /\ [][ConstructionNext]_vars

MalformedHistory(profile) ==
    profile.history = "KEEP_LAST" /\ profile.depth <= 0

(* C27: constructing a profile with KEEP_LAST and depth <= 0 gives an error *)
(* and no profile, and no local writer or reader has such a profile.        *)
C27_NoKeepLastWithoutDepth ==
    /\ (constructed # <<>> /\ "history" \in DOMAIN constructed[1])
           => ~MalformedHistory(constructed[1])
    /\ \A e \in LocalEndpoints : ~MalformedHistory(e.qos)

----------------------------------------------------------------------------
(* The action server: application/action_server.py.  Simulated time is in   *)
(* milliseconds (0.001 s is 1); progress is in tenths (1.0 is 10).  The     *)
(* reads of time.time() are input_bag of the operators: due says that the      *)
(* feedback interval has passed, remaining is what is left of it.           *)

GoalIds == {"g1", "g2"}

max_concurrent_goals == 1

feedback_rate == 100

ProgressComplete == 10

(* What the execute callback can leave behind when _start_execution runs    *)
(* it: the default callback reports every step and sets the result, a       *)
(* callback may return before the goal is complete, or raise.               *)
ExecuteOutcomes == {"complete", "partial", "raises"}

(* _start_execution, _update_progress, _set_result *)
ActionServer_start_execution(goal_info, outcome) ==
    CASE outcome = "complete" ->
             [goal_info EXCEPT !.status = "SUCCEEDED",
                               !.progress = ProgressComplete]
      [] outcome = "raises" ->
             [goal_info EXCEPT !.status = "ABORTED",
                               !.progress = ProgressComplete]
      [] OTHER -> [goal_info EXCEPT !.progress = 5]

(* ActionServer.timeAdvance *)
ActionServer_timeAdvance_unclamped(self, due, remaining) ==
    IF self.pending_goals # <<>> THEN 1
    ELSE IF self.pending_cancellations # <<>> THEN 1
    ELSE IF self.current_goal # <<>>
         THEN IF due THEN 0
              ELSE IF self.active_goals[self.current_goal[1]].progress
                          >= ProgressComplete
                   THEN 1
                   ELSE 0 - remaining
    ELSE INFINITY

ActionServer_timeAdvance(self, due, remaining) ==
    IF self.pending_goals # <<>> THEN 1
    ELSE IF self.pending_cancellations # <<>> THEN 1
    ELSE IF self.current_goal # <<>>
         THEN IF due THEN 0
              ELSE IF self.active_goals[self.current_goal[1]].progress
                          >= ProgressComplete
                   THEN 1
                   ELSE remaining
    ELSE INFINITY

(* ActionServer.outputFnc with the default goal and cancel callbacks: what  *)
(* it returns (<<>> is the empty dict) and the state it leaves, since it    *)
(* enters an accepted goal into active_goals and marks a canceled one.      *)
ActionServer_outputFnc(self, due) ==
    IF self.pending_goals # <<>>
    THEN LET goal == self.pending_goals[1] IN
         IF Cardinality(DOMAIN self.active_goals) < max_concurrent_goals
         THEN [out |-> <<[port |-> "goal_responses", goal_id |-> goal,
                          accepted |-> TRUE]>>,
               state |-> [self EXCEPT !.active_goals =
                             Put(self.active_goals, goal,
                                 [status |-> "PENDING", progress |-> 0])]]
         ELSE [out |-> <<[port |-> "goal_responses", goal_id |-> goal,
                          accepted |-> FALSE]>>,
               state |-> self]
    ELSE IF self.pending_cancellations # <<>>
    THEN LET goal_id == self.pending_cancellations[1] IN
         IF goal_id \in DOMAIN self.active_goals
         THEN [out |-> <<[port |-> "results", goal_id |-> goal_id,
                          status |-> "CANCELED"]>>,
               state |-> [self EXCEPT
                             !.active_goals[goal_id].status = "CANCELED"]]
         ELSE [out |-> <<>>, state |-> self]
    ELSE IF self.current_goal # <<>>
    THEN LET goal_id == self.current_goal[1]
             goal_info == self.active_goals[goal_id] IN
         IF due
         THEN [out |-> <<[port |-> "feedback", goal_id |-> goal_id,
                          progress |-> goal_info.progress]>>,
               state |-> self]
         ELSE IF goal_info.progress >= ProgressComplete
         THEN [out |-> <<[port |-> "results", goal_id |-> goal_id,
                          status |-> goal_info.status]>>,
               state |-> self]
         ELSE [out |-> <<>>, state |-> self]
    ELSE [out |-> <<>>, state |-> self]

(* The first part of intTransition: the queue or goal the step was for.     *)
ActionServer_intTransition_pop(self) ==
    IF self.pending_goals # <<>>
    THEN [self EXCEPT !.pending_goals = Tail(self.pending_goals)]
    ELSE IF self.pending_cancellations # <<>>
    THEN LET goal_id == self.pending_cancellations[1]
             popped == [self EXCEPT !.pending_cancellations =
                                        Tail(self.pending_cancellations)] IN
         IF goal_id \in DOMAIN self.active_goals
         THEN [popped EXCEPT
                  !.active_goals = Without(self.active_goals, {goal_id}),
                  !.current_goal = IF self.current_goal = <<goal_id>>
                                   THEN <<>> ELSE self.current_goal]
         ELSE popped
    ELSE IF self.current_goal # <<>>
    THEN IF self.active_goals[self.current_goal[1]].progress
                >= ProgressComplete
         THEN [self EXCEPT
                  !.active_goals =
                      Without(self.active_goals, {self.current_goal[1]}),
                  !.current_goal = <<>>]
         ELSE self
    ELSE self

(* ActionServer.intTransition: the part above, then the next PENDING goal   *)
(* starts executing.  At most max_concurrent_goals goals are active, so the *)
(* order of the dict does not decide which goal that is.                    *)
ActionServer_intTransition(self, outcome) ==
    LET popped == ActionServer_intTransition_pop(self)
        waiting == {g \in DOMAIN popped.active_goals :
                        popped.active_goals[g].status = "PENDING"} IN
    IF popped.current_goal = <<>> /\ waiting # {}
    THEN LET goal_id == CHOOSE g \in waiting : TRUE IN
         [popped EXCEPT
             !.current_goal = <<goal_id>>,
             !.active_goals[goal_id] =
                 ActionServer_start_execution([popped.active_goals[goal_id] EXCEPT
                                      !.status = "EXECUTING"], outcome)]
    ELSE popped

(* The input bags: an ActionGoal on goal_in, a cancel request on cancel_in, *)
(* or both in the same instant.  <<>> is a port without an event.           *)
ServerInputs ==
    {i \in [goal : {<<>>} \cup {<<g>> : g \in GoalIds},
            cancel : {<<>>} \cup {<<g>> : g \in GoalIds}] :
        i.goal # <<>> \/ i.cancel # <<>>}

(* ActionServer.extTransition *)
ActionServer_extTransition_after_internal(self, input_bag) ==
    LET fired == ActionServer_intTransition(ActionServer_outputFnc(self, FALSE).state, "complete")
        with_goal == IF input_bag.goal # <<>>
                     THEN [fired EXCEPT !.pending_goals =
                               Append(fired.pending_goals, input_bag.goal[1])]
                     ELSE fired IN
    IF input_bag.cancel # <<>>
    THEN [with_goal EXCEPT !.pending_cancellations =
              Append(with_goal.pending_cancellations, input_bag.cancel[1])]
    ELSE with_goal

ActionServer_extTransition(self, input_bag) ==
    LET with_goal == IF input_bag.goal # <<>>
                     THEN [self EXCEPT !.pending_goals =
                               Append(self.pending_goals, input_bag.goal[1])]
                     ELSE self IN
    IF input_bag.cancel # <<>>
    THEN [with_goal EXCEPT !.pending_cancellations =
              Append(with_goal.pending_cancellations, input_bag.cancel[1])]
    ELSE with_goal

----------------------------------------------------------------------------
(* The simulation kernel driving the action server.  The kernel is the      *)
(* PythonPDEVS simulator the program runs on (Simulator(system) in          *)
(* main.py); its steps follow the kernel's description: the cached time     *)
(* advance and last_event_time per model, the imminent model firing output  *)
(* then its internal transition, an input giving the external transition    *)
(* with the elapsed time, and the confluence rule when both coincide.       *)

MaxClock == 4

MaxInputs == 3

Remainings == {2, feedback_rate}

(* next-event time = last_event_time + ActionServer_timeAdvance *)
t_next ==
    IF srv_ta = INFINITY THEN INFINITY ELSE srv_last_event_time + srv_ta

(* The time advance is evaluated and cached after every transition.         *)
CacheTimeAdvance(self) ==
    \E due \in BOOLEAN, remaining \in Remainings :
        srv_ta' = ActionServer_timeAdvance(self, due, remaining)

(* The server is imminent and receives nothing: output, then the internal   *)
(* transition.                                                              *)
KernelInternal ==
    /\ t_next # INFINITY
    /\ t_next <= MaxClock
    /\ \E due \in BOOLEAN, outcome \in ExecuteOutcomes :
           LET fired == ActionServer_outputFnc(server, due) IN
           /\ srv_output' = fired.out
           /\ server' = ActionServer_intTransition(fired.state, outcome)
           /\ CacheTimeAdvance(ActionServer_intTransition(fired.state, outcome))
    /\ clock' = t_next
    /\ srv_last_event_time' = t_next
    /\ last_step' = "internal"
    /\ UNCHANGED <<srv_elapsed, inputs_sent>>
    /\ UNCHANGED <<qos_vars, transport_vars, run2_vars, dds_vars, rmw_vars,
                 composition_vars, late_vars>>

(* The server receives input at time t, before its own next event:          *)
(* external_transition with elapsed = t - last_event_time.                  *)
KernelExternal(input_bag, t) ==
    /\ inputs_sent < MaxInputs
    /\ t >= clock
    /\ t_next = INFINITY \/ t < t_next
    /\ clock' = t
    /\ srv_elapsed' = t - srv_last_event_time
    /\ server' = ActionServer_extTransition(server, input_bag)
    /\ CacheTimeAdvance(ActionServer_extTransition(server, input_bag))
    /\ srv_last_event_time' = t
    /\ srv_output' = <<>>
    /\ last_step' = "external"
    /\ inputs_sent' = inputs_sent + 1
    /\ UNCHANGED <<qos_vars, transport_vars, run2_vars, dds_vars, rmw_vars,
                 composition_vars, late_vars>>

(* Confluence rule: the server receives input at the instant it is          *)
(* imminent.  The external transition runs against the pre-output state     *)
(* with elapsed = the server's time advance; output and the internal        *)
(* transition are not run for this step.                                    *)
KernelConfluent(input_bag) ==
    /\ inputs_sent < MaxInputs
    /\ t_next # INFINITY
    /\ t_next <= MaxClock
    /\ clock' = t_next
    /\ srv_elapsed' = srv_ta
    /\ server' = ActionServer_extTransition(server, input_bag)
    /\ CacheTimeAdvance(ActionServer_extTransition(server, input_bag))
    /\ srv_last_event_time' = t_next
    /\ srv_output' = <<>>
    /\ last_step' = "confluent"
    /\ inputs_sent' = inputs_sent + 1
    /\ UNCHANGED <<qos_vars, transport_vars, run2_vars, dds_vars, rmw_vars,
                 composition_vars, late_vars>>

KernelInit ==
    /\ KernelStart /\ QoSIdle /\ TransportIdle /\ ParticipantIdle /\ RmwIdle
    /\ CompositionIdle /\ LateIdle

KernelNext ==
    \/ KernelInternal
    \/ \E input_bag \in ServerInputs, t \in 0..MaxClock :
           KernelExternal(input_bag, t)
    \/ \E input_bag \in ServerInputs : KernelConfluent(input_bag)

SpecKernel == KernelInit /\ [][KernelNext]_vars

(* C28: when input reaches the server at exactly the instant its own        *)
(* internal transition is due, the external transition alone is applied,    *)
(* to the state as it was before any output, with elapsed equal to the      *)
(* time advance: no output is produced, the active goals and the current    *)
(* goal are as they were, the input is queued; and a goal whose             *)
(* cancellation is queued never reports a result other than CANCELED.       *)
CancelQueued(goal_id) ==
    \E i \in 1..Len(server.pending_cancellations) :
        server.pending_cancellations[i] = goal_id

----------------------------------------------------------------------------
(* Composition of a coupled model: system.py.  A constructor such as        *)
(* ROS2System.__init__ adds sub-models, connects their ports and returns.   *)

ModelClasses ==
    {"Subscriber", "ActionServer", "ActionClient", "SharedMemoryTransport"}

(* The values timeAdvance of each class can return, in milliseconds.        *)
TimeAdvanceValues(class) ==
    CASE class = "Subscriber" -> {100, 1, 0, INFINITY}
      [] class = "ActionServer" ->
             {ActionServer_timeAdvance(self, due, remaining) :
                  self \in {ActionServerStart,
                            [ActionServerStart EXCEPT
                                !.pending_goals = <<"g1">>],
                            [ActionServerStart EXCEPT
                                !.current_goal = <<"g1">>,
                                !.active_goals = "g1" :>
                                    [status |-> "EXECUTING",
                                     progress |-> 5]]},
                  due \in BOOLEAN, remaining \in Remainings}
      [] class = "ActionClient" -> {1, INFINITY}
      [] OTHER -> {INFINITY}

ZeroDelay(class) == 0 \in TimeAdvanceValues(class)

MaxCouplings == 3

(* self.addSubModel(...) *)
AddSubModel(class) ==
    /\ composed = "building"
    /\ class \notin children
    /\ children' = children \cup {class}
    /\ UNCHANGED <<couplings, composed>>
    /\ UNCHANGED <<qos_vars, transport_vars, run2_vars, dds_vars, rmw_vars,
                   kernel_vars, late_vars>>

(* self.connectPorts(from.out_port, to.in_port) *)
ConnectPorts(from, to) ==
    /\ composed = "building"
    /\ from \in children
    /\ to \in children
    /\ from # to
    /\ <<from, to>> \notin couplings
    /\ Cardinality(couplings) < MaxCouplings
    /\ couplings' = couplings \cup {<<from, to>>}
    /\ UNCHANGED <<children, composed>>
    /\ UNCHANGED <<qos_vars, transport_vars, run2_vars, dds_vars, rmw_vars,
                   kernel_vars, late_vars>>

(* The end of __init__: the layers are created and connected, the system    *)
(* is configured, and the constructor returns the coupled model.            *)
CoupledInitReturns ==
    /\ composed = "building"
    /\ composed' = "constructed"
    /\ UNCHANGED <<children, couplings>>
    /\ UNCHANGED <<qos_vars, transport_vars, run2_vars, dds_vars, rmw_vars,
                   kernel_vars, late_vars>>

(* Simulator(system); sim.simulate() *)
Simulate ==
    /\ composed = "constructed"
    /\ composed' = "simulating"
    /\ UNCHANGED <<children, couplings>>
    /\ UNCHANGED <<qos_vars, transport_vars, run2_vars, dds_vars, rmw_vars,
                   kernel_vars, late_vars>>

CompositionInit ==
    /\ CompositionStart /\ QoSIdle /\ TransportIdle /\ ParticipantIdle
    /\ RmwIdle /\ KernelIdle /\ LateIdle

CompositionNext ==
    \/ \E class \in ModelClasses : AddSubModel(class)
    \/ \E from \in ModelClasses, to \in ModelClasses : ConnectPorts(from, to)
    \/ CoupledInitReturns
    \/ Simulate

SpecComposition == CompositionInit /\ [][CompositionNext]_vars

(* The connections between two sub-models that can both have a time        *)
(* advance of zero, and whether they close a cycle.                         *)
ZeroDelayCouplings ==
    {c \in couplings : ZeroDelay(c[1]) /\ ZeroDelay(c[2])}

Compose(edges) ==
    {p \in ModelClasses \X ModelClasses :
        \E mid \in ModelClasses :
            <<p[1], mid>> \in edges /\ <<mid, p[2]>> \in edges}

RECURSIVE Closure(_, _)
Closure(edges, n) ==
    IF n = 0 THEN edges
    ELSE LET inner == Closure(edges, n - 1) IN inner \cup Compose(inner)

HasZeroDelayCycle ==
    \E class \in ModelClasses :
        <<class, class>> \in Closure(ZeroDelayCouplings, 2)

(* C30: a coupled model whose sub-models form a routing cycle of zero-delay *)
(* models is never constructed, and so never simulated: its constructor     *)
(* ends in a construction error.                                            *)
C30_ZeroDelayCycleRejected ==
    composed \in {"constructed", "simulating"} => ~HasZeroDelayCycle

----------------------------------------------------------------------------
(* Trace logging and the simulated outcomes: core/trace.py,                 *)
(* dds/transport.py, executor.py.  All three draw from the one generator    *)
(* of the random module.  Two runs are given the same generator state (the  *)
(* same stream of values, in thousandths) and the same sequence of calls;   *)
(* they differ only in how their trace logger is set up.  An event name is  *)
(* the set of the words in it, and a pattern is in the name when it is one  *)
(* of them.                                                                 *)

StreamLen == 7

cpu_change_rate == 30

thread_complete_rate == 300

EventNames == {{"dds", "write"}, {"rmw", "publish"}}

LoggerConfigs ==
    [enabled : BOOLEAN, filter_patterns : {{}, {"dds"}},
     exclude_patterns : {{}, {"rmw"}}]

(* log_event up to its filters: TRUE when the event goes on to be stored    *)
log_event_passes(logger, event_name) ==
    /\ logger.enabled
    /\ logger.filter_patterns = {}
           \/ \E p \in logger.filter_patterns : p \in event_name
    /\ ~ \E p \in logger.exclude_patterns : p \in event_name

(* The values log_event takes from the random module: none when it returns  *)
(* early; otherwise none for a registered context key or four (procname,    *)
(* cpu_id, vtid, vpid) without a key, then one for the CPU change test and  *)
(* one more for the new cpu_id when that value is below 0.03.               *)
log_event_draws(logger, event_name, context_key, stream, pos) ==
    IF ~log_event_passes(logger, event_name) THEN 0
    ELSE LET context == IF context_key = "none" THEN 4 ELSE 0 IN
         IF stream[pos + context] < cpu_change_rate
         THEN context + 2
         ELSE context + 1

log_event_draws_never(logger, event_name, context_key, stream, pos) == 0

MaxDrawsPerCall == 6

MaxOutcomes == 2

StreamLeft ==
    /\ Len(outcomes_1) < MaxOutcomes
    /\ prng_pos_1 + MaxDrawsPerCall - 1 <= Len(prng_stream)
    /\ prng_pos_2 + MaxDrawsPerCall - 1 <= Len(prng_stream)

(* trace_logger.log_event(event_name, fields, context_key), in both runs *)
LogEvent(event_name, context_key) ==
    /\ StreamLeft
    /\ prng_pos_1' = prng_pos_1
           + log_event_draws(logger_1, event_name, context_key, prng_stream,
                             prng_pos_1)
    /\ prng_pos_2' = prng_pos_2
           + log_event_draws(logger_2, event_name, context_key, prng_stream,
                             prng_pos_2)
    /\ events_1' = events_1
           + (IF log_event_passes(logger_1, event_name) THEN 1 ELSE 0)
    /\ events_2' = events_2
           + (IF log_event_passes(logger_2, event_name) THEN 1 ELSE 0)
    /\ UNCHANGED <<logger_1, logger_2, prng_stream, outcomes_1, outcomes_2>>
    /\ UNCHANGED trace_frame

(* NetworkTransport.extTransition with _should_drop, in both runs: the      *)
(* datagram transports take one value from the random module.               *)
drop_outcome(type, stream, pos) ==
    IF type = "TCP" THEN "queued"
    ELSE IF should_drop(type, stream[pos]) THEN "dropped" ELSE "queued"

NetSend(type) ==
    /\ StreamLeft
    /\ outcomes_1' =
           Append(outcomes_1, drop_outcome(type, prng_stream, prng_pos_1))
    /\ outcomes_2' =
           Append(outcomes_2, drop_outcome(type, prng_stream, prng_pos_2))
    /\ prng_pos_1' = prng_pos_1 + (IF type = "TCP" THEN 0 ELSE 1)
    /\ prng_pos_2' = prng_pos_2 + (IF type = "TCP" THEN 0 ELSE 1)
    /\ UNCHANGED <<logger_1, logger_2, prng_stream, events_1, events_2>>
    /\ UNCHANGED trace_frame

(* MultiThreadedExecutor._is_thread_complete, in both runs *)
is_thread_complete(stream, pos) ==
    IF stream[pos] < thread_complete_rate THEN "complete" ELSE "running"

ThreadCheck ==
    /\ StreamLeft
    /\ outcomes_1' =
           Append(outcomes_1, is_thread_complete(prng_stream, prng_pos_1))
    /\ outcomes_2' =
           Append(outcomes_2, is_thread_complete(prng_stream, prng_pos_2))
    /\ prng_pos_1' = prng_pos_1 + 1
    /\ prng_pos_2' = prng_pos_2 + 1
    /\ UNCHANGED <<logger_1, logger_2, prng_stream, events_1, events_2>>
    /\ UNCHANGED trace_frame

RECURSIVE Streams(_)
Streams(n) ==
    IF n = 0 THEN {<<>>}
    ELSE {Append(stream, random) : stream \in Streams(n - 1),
                                   random \in RandomDraws}

TraceInit ==
    /\ logger_1 \in LoggerConfigs
    /\ logger_2 \in LoggerConfigs
    /\ prng_stream \in Streams(StreamLen)
    /\ prng_pos_1 = 1
    /\ prng_pos_2 = 1
    /\ outcomes_1 = <<>>
    /\ outcomes_2 = <<>>
    /\ events_1 = 0
    /\ events_2 = 0
    /\ TraceRestIdle

TraceNext ==
    \/ \E event_name \in EventNames, context_key \in {"none", "registered"} :
           LogEvent(event_name, context_key)
    \/ \E type \in {"UDP_MULTICAST", "UDP_UNICAST", "TCP"} : NetSend(type)
    \/ ThreadCheck

SpecTrace == TraceInit /\ [][TraceNext]_vars

(* C31: trace logging is a pure observer: two runs that differ only in      *)
(* whether and what their trace logger records have the same simulated      *)
(* outcomes (which messages are dropped, which work items complete).        *)
C31_TraceIsPureObserver == outcomes_1 = outcomes_2

----------------------------------------------------------------------------
(* The validator: simulation/enhanced_validator.py.  A trace dictionary is  *)
(* a record of its four keys; Missing marks a key the dictionary does not   *)
(* have, NotAString an event value that is not a string.  A timestamp is *)
(* the text of a number of whole seconds, or "bad", which float() cannot    *)
(* convert.                                                                 *)

Missing == "<missing>"

NotAString == "<not a string>"

(* dict.get(key, default) *)
Get(event, key, default) ==
    IF event[key] = Missing THEN default ELSE event[key]

(* pattern in name, for the event names and patterns that occur *)
Contains(name, pattern) ==
    \/ name = pattern
    \/ name = "rclcpp_publish" /\ pattern = "publish"

(* "pattern in event.get('event', '')" raises TypeError on a non-string *)
EventRaises(event) == Get(event, "event", "") = NotAString

EventHas(event, pattern) == Contains(Get(event, "event", ""), pattern)

(* float(event.get('timestamp', 0)) *)
FloatRaises(event) == Get(event, "timestamp", "0") \notin {"0", "1"}

Float(event) == IF Get(event, "timestamp", "0") = "1" THEN 1 ELSE 0

Indices(events) == 1..Len(events)

(* _create_validation_rules *)
BasicRules ==
    <<"node_initialization_order", "required_topics_exist",
      "message_flow_patterns">>

StandardRules ==
    <<"qos_profile_consistency", "timing_patterns", "latency_bounds">>

ComprehensiveRules ==
    <<"throughput_requirements", "resource_usage_patterns", "error_handling">>

create_validation_rules(level) ==
    BasicRules
      \o (IF level \in {"standard", "comprehensive"}
          THEN StandardRules ELSE <<>>)
      \o (IF level = "comprehensive" THEN ComprehensiveRules ELSE <<>>)

(* Each rule gives "passed" or "failed", or "raises" when an exception      *)
(* leaves it.                                                               *)

(* _validate_node_initialization_order *)
validate_node_initialization_order(events) ==
    IF \E i \in Indices(events) : EventRaises(events[i]) THEN "raises"
    ELSE LET node_init_order ==
                 {Get(events[i], "node_name", "unknown") :
                      i \in {k \in Indices(events) :
                                 EventHas(events[k], "rcl_node_init")}} IN
         IF {"dummy_map_serve", "robot_state_publisher", "dummy_joint_sta"}
                \subseteq node_init_order
         THEN "passed" ELSE "failed"

(* _validate_required_topics *)
validate_required_topics(events) ==
    IF \E i \in Indices(events) : EventRaises(events[i]) THEN "raises"
    ELSE LET topic_messages ==
                 {Get(events[i], "topic", "unknown") :
                      i \in {k \in Indices(events) :
                                 EventHas(events[k], "rclcpp_publish")}} IN
         IF {"/map", "/robot_description", "/joint_states", "/scan"}
                \subseteq topic_messages
         THEN "passed" ELSE "failed"

(* _validate_message_flow_patterns: a topic is orphaned when it has no      *)
(* publisher or no subscriber.                                              *)
validate_message_flow_patterns(events) ==
    IF \E i \in Indices(events) : EventRaises(events[i]) THEN "raises"
    ELSE LET publishers(topic) ==
                 {i \in Indices(events) :
                      /\ EventHas(events[i], "rclcpp_publish")
                      /\ Get(events[i], "topic", "unknown") = topic}
             subscribers(topic) ==
                 {i \in Indices(events) :
                      /\ ~EventHas(events[i], "rclcpp_publish")
                      /\ EventHas(events[i], "subscription")
                      /\ Get(events[i], "topic", "unknown") = topic}
             topics == {Get(events[i], "topic", "unknown") :
                            i \in Indices(events)} IN
         IF \E topic \in topics :
                /\ publishers(topic) \cup subscribers(topic) # {}
                /\ publishers(topic) = {} \/ subscribers(topic) = {}
         THEN "failed" ELSE "passed"

RECURSIVE SumIntervals(_)
SumIntervals(times) ==
    IF Len(times) < 2 THEN 0
    ELSE (times[2] - times[1]) + SumIntervals(Tail(times))

Abs(x) == IF x < 0 THEN 0 - x ELSE x

(* _validate_timing_patterns, for the topic "/map" (expected interval 1 s,  *)
(* tolerance 50%): the average interval avg violates it when                *)
(* |avg - 1| > 0.5, that is 2 * |sum - n| > n for n intervals.              *)
validate_timing_patterns(events) ==
    LET on_topic == {i \in Indices(events) : events[i].topic = "/map"} IN
    IF \E i \in on_topic :
           \/ EventRaises(events[i])
           \/ EventHas(events[i], "publish") /\ FloatRaises(events[i])
    THEN "raises"
    ELSE LET published ==
                 SelectSeq(events,
                           LAMBDA e : e.topic = "/map" /\ EventHas(e, "publish"))
             publish_times == [i \in Indices(published) |-> Float(published[i])]
             n == Len(publish_times) - 1 IN
         IF n >= 1 /\ 2 * Abs(SumIntervals(publish_times) - n) > n
         THEN "failed" ELSE "passed"

(* The inner loop of _validate_latency_bounds from index j on: it raises,   *)
(* finds no matching take event, or finds one and its latency.              *)
Found(kind, latency) == [kind |-> kind, latency |-> latency]

RECURSIVE FindTake(_, _, _)
FindTake(events, i, j) ==
    IF j > Len(events) THEN Found("none", 0)
    ELSE IF EventRaises(events[j]) THEN Found("raises", 0)
    ELSE IF EventHas(events[j], "rmw_take")
            /\ events[j].topic = events[i].topic
    THEN IF FloatRaises(events[j]) \/ FloatRaises(events[i])
         THEN Found("raises", 0)
         ELSE Found("latency", Float(events[j]) - Float(events[i]))
    ELSE FindTake(events, i, j + 1)

(* _validate_latency_bounds: the bound is 0.1 s *)
validate_latency_bounds(events) ==
    LET found(i) ==
            IF EventRaises(events[i]) THEN Found("raises", 0)
            ELSE IF EventHas(events[i], "rclcpp_publish")
                 THEN FindTake(events, i, i + 1)
                 ELSE Found("none", 0) IN
    IF \E i \in Indices(events) : found(i).kind = "raises" THEN "raises"
    ELSE IF \E i \in Indices(events) :
                found(i).kind = "latency" /\ found(i).latency > 0
         THEN "failed" ELSE "passed"

(* _validate_throughput_requirements *)
validate_throughput_requirements(events) ==
    IF \E i \in Indices(events) : EventRaises(events[i]) THEN "raises"
    ELSE IF events # <<>>
            /\ (FloatRaises(events[Len(events)]) \/ FloatRaises(events[1]))
    THEN "raises"
    ELSE "passed"

(* _validate_error_handling *)
validate_error_handling(events) ==
    IF \E i \in Indices(events) : EventRaises(events[i]) THEN "raises"
    ELSE IF \E i \in Indices(events) : EventHas(events[i], "error")
         THEN "failed" ELSE "passed"

(* The dispatch of _run_validation_rule on the rule's name *)
validate_rule(name, events) ==
    CASE name = "node_initialization_order" ->
             validate_node_initialization_order(events)
      [] name = "required_topics_exist" -> validate_required_topics(events)
      [] name = "message_flow_patterns" ->
             validate_message_flow_patterns(events)
      [] name = "qos_profile_consistency" -> "passed"
      [] name = "timing_patterns" -> validate_timing_patterns(events)
      [] name = "latency_bounds" -> validate_latency_bounds(events)
      [] name = "throughput_requirements" ->
             validate_throughput_requirements(events)
      [] name = "resource_usage_patterns" -> "passed"
      [] name = "error_handling" -> validate_error_handling(events)
      [] OTHER -> "failed"

(* _run_validation_rule: what it does to self.results, <<>> when it added   *)
(* nothing because the exception left it.                                   *)
run_validation_rule_no_except(name, events) ==
    IF validate_rule(name, events) = "raises"
    THEN <<>>
    ELSE <<[rule |-> name, passed |-> validate_rule(name, events) = "passed"]>>

run_validation_rule(name, events) ==
    IF validate_rule(name, events) = "raises"
    THEN <<[rule |-> name, passed |-> FALSE]>>
    ELSE <<[rule |-> name, passed |-> validate_rule(name, events) = "passed"]>>

RECURSIVE RunRules(_, _)
RunRules(rules, events) ==
    IF rules = <<>> THEN <<>>
    ELSE run_validation_rule(Head(rules), events)
             \o RunRules(Tail(rules), events)

(* EnhancedValidator.validate: the dictionary it returns, or the exception  *)
(* that leaves it when a rule did not end with a result.                    *)
validate(level, events) ==
    LET rules == create_validation_rules(level)
        results == RunRules(rules, events) IN
    IF Len(results) < Len(rules)
    THEN [raised |-> "Exception"]
    ELSE [validation_level |-> level,
          total_rules |-> Len(rules),
          passed_rules |-> Len(SelectSeq(results, LAMBDA r : r.passed)),
          failed_rules |-> Len(SelectSeq(results, LAMBDA r : ~r.passed)),
          results |-> results]

MaxTraces == 2

TraceDicts ==
    [event : {Missing, NotAString, "rcl_node_init", "rclcpp_publish",
              "rmw_take", "error"},
     topic : {Missing, "/map"},
     node_name : {Missing},
     timestamp : {Missing, "0", "1", "bad"}]

RECURSIVE TraceLists(_)
TraceLists(n) ==
    IF n = 0 THEN {<<>>}
    ELSE TraceLists(n - 1)
           \cup {Append(events, event) :
                     events \in {l \in TraceLists(n - 1) : Len(l) = n - 1},
                     event \in TraceDicts}

ValidatorInit ==
    /\ validation_level \in {"basic", "standard", "comprehensive"}
    /\ traces \in TraceLists(MaxTraces)
    /\ validation = <<>>
    /\ ValidatorRestIdle

(* validator.validate(traces) *)
ValidateCall ==
    /\ validation = <<>>
    /\ validation' = <<validate(validation_level, traces)>>
    /\ UNCHANGED <<validation_level, traces>>
    /\ UNCHANGED validator_frame

ValidatorNext == ValidateCall

SpecValidator == ValidatorInit /\ [][ValidatorNext]_vars

RuleNames(level) ==
    {create_validation_rules(level)[i] :
         i \in 1..Len(create_validation_rules(level))}

(* C32: validate returns for every list of trace dictionaries: its result   *)
(* is a dictionary whose total_rules is the number of configured rules,     *)
(* with one result per rule, and a rule that raised is recorded as failed.  *)
C32_ValidateNeverRaises ==
    validation # <<>> =>
        /\ "total_rules" \in DOMAIN validation[1]
        /\ validation[1].total_rules
               = Cardinality(RuleNames(validation_level))
        /\ Len(validation[1].results) = validation[1].total_rules
        /\ validation[1].passed_rules + validation[1].failed_rules
               = validation[1].total_rules
        /\ \A i \in 1..Len(validation[1].results) :
               validate_rule(validation[1].results[i].rule, traces) = "raises"
                   => ~validation[1].results[i].passed

(* validate has returned for a list with an entry without event and         *)
(* timestamp and an entry that made a rule raise.                           *)
C32_Witness ==
    /\ validation # <<>>
    /\ \E i \in 1..Len(traces) :
           traces[i].event = Missing /\ traces[i].timestamp = Missing
    /\ \E i \in 1..Len(validation[1].results) :
           validate_rule(validation[1].results[i].rule, traces) = "raises"

----------------------------------------------------------------------------
(* The multi-threaded executor: executor.py.  A work item is its callback   *)
(* group and handle; the group "reentrant" is a ReentrantCallbackGroup, the *)
(* others are mutually exclusive.  active_threads is the dict as the list   *)
(* of its items in insertion order.                                         *)

CallbackGroups == {"group_a", "group_b", "reentrant"}

MaxWork == 3

WorkItem(handle, callback_group) ==
    [handle |-> handle, callback_group |-> callback_group]

(* MultiThreadedExecutor._can_execute *)
can_execute_ignoring_locks(work, locks) == TRUE

can_execute(work, locks) ==
    IF work.callback_group = "reentrant" THEN TRUE
    ELSE work.callback_group \notin DOMAIN locks

(* MultiThreadedExecutor.extTransition: a work item arrives *)
ExecutorExtTransition(callback_group) ==
    /\ ~dispatch_loop
    /\ work_submitted < MaxWork
    /\ work_submitted' = work_submitted + 1
    /\ work_queue' =
           Append(work_queue, WorkItem(work_submitted + 1, callback_group))
    /\ UNCHANGED <<ex_phase, active_threads, available_threads,
                   callback_group_locks, dispatch_loop>>
    /\ UNCHANGED executor_frame

(* MultiThreadedExecutor.intTransition: the next phase *)
executor_int_transition(phase_now, queue, available, active) ==
    IF phase_now = "idle"
    THEN IF queue # <<>> /\ available # <<>> THEN "dispatching"
         ELSE IF active # <<>> THEN "executing"
         ELSE "idle"
    ELSE IF phase_now = "dispatching"
    THEN IF active # <<>> THEN "executing" ELSE "idle"
    ELSE IF queue # <<>> /\ available # <<>> THEN "dispatching"
         ELSE IF active # <<>> THEN "executing"
         ELSE "idle"

(* Phase idle: outputFnc returns {}, then intTransition.                    *)
ExecutorIdleInternal ==
    /\ ex_phase = "idle"
    /\ ex_phase' = executor_int_transition(ex_phase, work_queue,
                                           available_threads, active_threads)
    /\ UNCHANGED <<work_queue, active_threads, available_threads,
                   callback_group_locks, dispatch_loop, work_submitted>>
    /\ UNCHANGED executor_frame

(* One iteration of the dispatch loop of outputFnc: the loop condition      *)
(* holds; the head of the queue goes to the back when its callback group    *)
(* does not allow execution, else to the first available thread.            *)
DispatchIteration ==
    /\ ex_phase = "dispatching"
    /\ work_queue # <<>> /\ available_threads # <<>>
    /\ dispatch_loop' = TRUE
    /\ LET work == work_queue[1] IN
       IF ~can_execute(work, callback_group_locks)
       THEN /\ work_queue' = Append(Tail(work_queue), work)
            /\ UNCHANGED <<active_threads, available_threads,
                           callback_group_locks>>
       ELSE LET thread_id == available_threads[1] IN
            /\ available_threads' = Tail(available_threads)
            /\ active_threads' =
                   Append(active_threads,
                          [thread_id |-> thread_id, work |-> work])
            /\ work_queue' = Tail(work_queue)
            /\ callback_group_locks' =
                   IF work.callback_group # "reentrant"
                   THEN Put(callback_group_locks, work.callback_group,
                            thread_id)
                   ELSE callback_group_locks
    /\ UNCHANGED <<ex_phase, work_submitted>>
    /\ UNCHANGED executor_frame

(* The dispatch loop ends: its condition is false; outputFnc returns {},    *)
(* then intTransition.                                                      *)
DispatchExit ==
    /\ ex_phase = "dispatching"
    /\ ~(work_queue # <<>> /\ available_threads # <<>>)
    /\ dispatch_loop' = FALSE
    /\ ex_phase' = executor_int_transition(ex_phase, work_queue,
                                           available_threads, active_threads)
    /\ UNCHANGED <<work_queue, active_threads, available_threads,
                   callback_group_locks, work_submitted>>
    /\ UNCHANGED executor_frame

RemoveAt(seq, i) == SubSeq(seq, 1, i - 1) \o SubSeq(seq, i + 1, Len(seq))

(* Phase executing: outputFnc asks _is_thread_complete for every active     *)
(* thread and completes the first one that is (i, or none when i = 0):      *)
(* the thread becomes available and the lock it holds is released; then     *)
(* intTransition.                                                           *)
ExecutorComplete(i) ==
    /\ ex_phase = "executing"
    /\ i \in 0..Len(active_threads)
    /\ IF i = 0
       THEN /\ UNCHANGED <<active_threads, available_threads,
                           callback_group_locks>>
            /\ ex_phase' =
                   executor_int_transition(ex_phase, work_queue,
                                           available_threads, active_threads)
       ELSE LET thread_id == active_threads[i].thread_id
                work == active_threads[i].work IN
            /\ active_threads' = RemoveAt(active_threads, i)
            /\ available_threads' = Append(available_threads, thread_id)
            /\ callback_group_locks' =
                   IF /\ work.callback_group \in DOMAIN callback_group_locks
                      /\ callback_group_locks[work.callback_group] = thread_id
                   THEN Without(callback_group_locks, {work.callback_group})
                   ELSE callback_group_locks
            /\ ex_phase' =
                   executor_int_transition(ex_phase, work_queue,
                       Append(available_threads, thread_id),
                       RemoveAt(active_threads, i))
    /\ UNCHANGED <<work_queue, dispatch_loop, work_submitted>>
    /\ UNCHANGED executor_frame

ExecutorInit == ExecutorStart /\ ExecutorRestIdle

ExecutorNext ==
    \/ \E callback_group \in CallbackGroups :
           ExecutorExtTransition(callback_group)
    \/ ExecutorIdleInternal
    \/ DispatchIteration
    \/ DispatchExit
    \/ \E i \in 0..num_threads : ExecutorComplete(i)

SpecExecutor == ExecutorInit /\ [][ExecutorNext]_vars

(* A handler that has started runs on: the dispatch loop takes its next     *)
(* iteration or ends.                                                       *)
FairSpecExecutor ==
    /\ SpecExecutor
    /\ WF_vars(DispatchIteration)
    /\ WF_vars(DispatchExit)

(* C33: the dispatch loop of outputFnc terminates: once inside the loop,    *)
(* the executor eventually leaves it.                                       *)
C33_DispatchTerminates == dispatch_loop ~> ~dispatch_loop

ActiveOf(callback_group) ==
    {i \in 1..Len(active_threads) :
         active_threads[i].work.callback_group = callback_group}

ThreadIds(seq_of_ids) == {seq_of_ids[i] : i \in 1..Len(seq_of_ids)}

(* C34: at most one work item of a mutually exclusive callback group is on  *)
(* an active thread, and no thread id is both active and available.         *)
C34_ExclusiveGroupsAndThreads ==
    /\ \A callback_group \in CallbackGroups \ {"reentrant"} :
           Cardinality(ActiveOf(callback_group)) <= 1
    /\ ThreadIds(available_threads)
           \cap {active_threads[i].thread_id : i \in 1..Len(active_threads)}
         = {}

(* A work item of a mutually exclusive group is on a thread while another   *)
(* of the same group is queued and a thread is free, inside the dispatch    *)
(* loop.                                                                    *)
C34_Witness ==
    /\ dispatch_loop
    /\ available_threads # <<>>
    /\ \E i \in 1..Len(active_threads), j \in 1..Len(work_queue) :
           /\ active_threads[i].work.callback_group = "group_a"
           /\ work_queue[j].callback_group = "group_a"

----------------------------------------------------------------------------
(* The callback group manager: rclcpp/callback_group.py.  One thread calls  *)
(* the manager's methods.  The manager's _lock is a threading.Lock: it is   *)
(* not reentrant, so an acquire by the thread that holds it waits until the *)
(* lock is released.  There is one group of each type; the groups' own      *)
(* locks are taken and released inside one step and are left out.           *)

GroupIds == {"MutuallyExclusive", "Reentrant"}

MaxAvailable == 2

AvailableLists ==
    UNION {[1..n -> Handles] : n \in 0..MaxAvailable}

(* CallbackGroupManager.get_callback_group, the part under the lock *)
get_callback_group(handle, c2g, groups) ==
    IF c2g[handle] # NoGroup /\ c2g[handle] \in groups
    THEN c2g[handle] ELSE NoGroup

(* try_acquire of the two group classes: the return value and the group's   *)
(* _executing afterwards                                                    *)
try_acquire(group, handle, me, re) ==
    IF group = "MutuallyExclusive"
    THEN IF me = None
         THEN [ok |-> TRUE, me |-> handle, re |-> re]
         ELSE [ok |-> FALSE, me |-> me, re |-> re]
    ELSE [ok |-> TRUE, me |-> me, re |-> re \cup {handle}]

(* CallbackGroupManager.can_execute, after get_callback_group has returned *)
manager_can_execute(group, handle, me, re) ==
    IF group = NoGroup
    THEN [ok |-> TRUE, me |-> me, re |-> re]
    ELSE try_acquire(group, handle, me, re)

(* CallbackGroupManager.add_callback_to_group *)
AddCallbackToGroup(handle, group) ==
    /\ cbg_call = "none"
    /\ ~mgr_lock
    /\ mgr_groups' = mgr_groups \cup {group}
    /\ callback_to_group' = [callback_to_group EXCEPT ![handle] = group]
    /\ UNCHANGED <<mgr_lock, me_executing, re_executing, cbg_call, cbg_pc,
                   available_callbacks, cbg_next, cbg_handle, ready>>
    /\ UNCHANGED cbg_frame

(* CallbackGroupManager.notify_execution_complete *)
NotifyExecutionComplete(handle) ==
    /\ cbg_call = "none"
    /\ ~mgr_lock
    /\ LET group == get_callback_group(handle, callback_to_group, mgr_groups)
       IN  /\ me_executing' =
                  IF group = "MutuallyExclusive" /\ me_executing = handle
                  THEN None ELSE me_executing
           /\ re_executing' =
                  IF group = "Reentrant"
                  THEN re_executing \ {handle} ELSE re_executing
    /\ UNCHANGED <<mgr_groups, callback_to_group, mgr_lock, cbg_call, cbg_pc,
                   available_callbacks, cbg_next, cbg_handle, ready>>
    /\ UNCHANGED cbg_frame

(* a call of can_execute from outside the manager: up to the call of        *)
(* get_callback_group                                                       *)
CallCanExecute(handle) ==
    /\ cbg_call = "none"
    /\ cbg_call' = "can_execute"
    /\ cbg_pc' = "get_callback_group"
    /\ cbg_handle' = handle
    /\ UNCHANGED <<mgr_groups, callback_to_group, mgr_lock, me_executing,
                   re_executing, available_callbacks, cbg_next, ready>>
    /\ UNCHANGED cbg_frame

(* can_execute from "with self._lock" of get_callback_group to its return:  *)
(* the lock is acquired (the step waits while it is held), the group is     *)
(* looked up, the lock is released and the group's try_acquire decides.     *)
(* Inside get_ready_callbacks the handle is appended to ready when it may   *)
(* run, and the loop goes on.                                               *)
CanExecuteStep ==
    /\ cbg_pc = "get_callback_group"
    /\ ~mgr_lock
    /\ LET group == get_callback_group(cbg_handle, callback_to_group,
                                       mgr_groups)
           r == manager_can_execute(group, cbg_handle, me_executing,
                                    re_executing)
       IN  /\ me_executing' = r.me
           /\ re_executing' = r.re
           /\ IF cbg_call = "get_ready_callbacks"
              THEN /\ ready' = IF r.ok THEN Append(ready, cbg_handle)
                               ELSE ready
                   /\ cbg_next' = cbg_next + 1
                   /\ cbg_pc' = "loop"
                   /\ UNCHANGED cbg_call
              ELSE /\ cbg_call' = "none"
                   /\ cbg_pc' = "idle"
                   /\ UNCHANGED <<ready, cbg_next>>
    /\ UNCHANGED <<mgr_groups, callback_to_group, mgr_lock,
                   available_callbacks, cbg_handle>>
    /\ UNCHANGED cbg_frame

(* get_ready_callbacks up to the loop: ready = [] and the lock is taken *)
GetReadyCallbacks(callbacks) ==
    /\ cbg_call = "none"
    /\ ~mgr_lock
    /\ mgr_lock' = TRUE
    /\ cbg_call' = "get_ready_callbacks"
    /\ cbg_pc' = "loop"
    /\ available_callbacks' = callbacks
    /\ cbg_next' = 1
    /\ ready' = <<>>
    /\ UNCHANGED <<mgr_groups, callback_to_group, me_executing, re_executing,
                   cbg_handle>>
    /\ UNCHANGED cbg_frame

(* one "for handle in available_callbacks": the call of can_execute *)
GetReadyIteration ==
    /\ cbg_call = "get_ready_callbacks"
    /\ cbg_pc = "loop"
    /\ cbg_next <= Len(available_callbacks)
    /\ cbg_handle' = available_callbacks[cbg_next]
    /\ cbg_pc' = "get_callback_group"
    /\ UNCHANGED <<mgr_groups, callback_to_group, mgr_lock, me_executing,
                   re_executing, cbg_call, available_callbacks, cbg_next,
                   ready>>
    /\ UNCHANGED cbg_frame

(* the end of the loop: the lock is released and ready is returned *)
GetReadyReturn ==
    /\ cbg_call = "get_ready_callbacks"
    /\ cbg_pc = "loop"
    /\ cbg_next > Len(available_callbacks)
    /\ mgr_lock' = FALSE
    /\ cbg_call' = "none"
    /\ cbg_pc' = "idle"
    /\ UNCHANGED <<mgr_groups, callback_to_group, me_executing, re_executing,
                   available_callbacks, cbg_next, cbg_handle, ready>>
    /\ UNCHANGED cbg_frame

CbgInit ==
    /\ CbgStart
    /\ CbgRestIdle

CbgNext ==
    \/ \E handle \in Handles, group \in GroupIds :
           AddCallbackToGroup(handle, group)
    \/ \E handle \in Handles : NotifyExecutionComplete(handle)
    \/ \E handle \in Handles : CallCanExecute(handle)
    \/ CanExecuteStep
    \/ \E callbacks \in AvailableLists : GetReadyCallbacks(callbacks)
    \/ GetReadyIteration
    \/ GetReadyReturn

SpecCbg == CbgInit /\ [][CbgNext]_vars

(* the thread keeps running: a step of a method that can be taken is taken *)
FairSpecCbg ==
    /\ SpecCbg
    /\ WF_vars(CanExecuteStep)
    /\ WF_vars(GetReadyIteration)
    /\ WF_vars(GetReadyReturn)

(* C35: every call of get_ready_callbacks with a non-empty list of handles  *)
(* returns: the thread does not wait forever for the manager's own lock.    *)
C35_GetReadyCallbacksReturns ==
    (cbg_call = "get_ready_callbacks" /\ available_callbacks # <<>>)
        ~> (cbg_call = "none")

----------------------------------------------------------------------------
(* The lifecycle manager and its nodes: lifecycle_node.py.  A transition    *)
(* event the manager sends reaches the node it names, and the node's result *)
(* reaches the manager together with the node's name.  A node's transition  *)
(* takes at most 0.2 s and the manager's wait 1.0 s, so an answer, when     *)
(* there is one, arrives before the wait expires.                           *)

LifecycleStates == {"UNCONFIGURED", "INACTIVE", "ACTIVE", "FINALIZED"}

(* LifecycleNode.valid_transitions: the state a transition leads to, or     *)
(* "invalid"                                                                *)
valid_transitions(state, transition) ==
    CASE state = "UNCONFIGURED" /\ transition = "CONFIGURE" -> "INACTIVE"
      [] state = "UNCONFIGURED" /\ transition = "SHUTDOWN" -> "FINALIZED"
      [] state = "INACTIVE" /\ transition = "CLEANUP" -> "UNCONFIGURED"
      [] state = "INACTIVE" /\ transition = "ACTIVATE" -> "ACTIVE"
      [] state = "INACTIVE" /\ transition = "SHUTDOWN" -> "FINALIZED"
      [] state = "ACTIVE" /\ transition = "DEACTIVATE" -> "INACTIVE"
      [] state = "ACTIVE" /\ transition = "SHUTDOWN" -> "FINALIZED"
      [] OTHER -> "invalid"

Reversed(s) == [i \in 1..Len(s) |-> s[Len(s) + 1 - i]]

Steps(nodes, transition) ==
    [i \in 1..Len(nodes) |-> [node |-> nodes[i], transition |-> transition]]

(* LifecycleManager._start_startup_sequence: the operation sequence *)
start_startup_sequence ==
    Steps(managed_nodes, "CONFIGURE") \o Steps(managed_nodes, "ACTIVATE")

(* LifecycleManager._start_shutdown_sequence: the operation sequence *)
start_shutdown_sequence ==
    Steps(Reversed(managed_nodes), "DEACTIVATE")
        \o Steps(Reversed(managed_nodes), "CLEANUP")
        \o Steps(Reversed(managed_nodes), "SHUTDOWN")

ManagerCommands == {"startup", "shutdown", "restart"}

(* LifecycleManager.extTransition with a command on command_in *)
ManagerCommand(cmd) ==
    /\ IF lm_phase = "idle" /\ cmd \in {"startup", "shutdown"}
       THEN /\ current_operation' = cmd
            /\ operation_sequence' =
                   IF cmd = "startup" THEN start_startup_sequence
                   ELSE start_shutdown_sequence
            /\ current_step' = 0
            /\ lm_phase' = "executing_sequence"
       ELSE UNCHANGED <<current_operation, operation_sequence, current_step,
                        lm_phase>>
    /\ UNCHANGED <<waiting_for_responses, node_states, lifecycle_state,
                   node_phase, pending_transition, status_out>>
    /\ UNCHANGED lifecycle_frame

(* LifecycleNode.extTransition with a TransitionEvent: the node's phase and *)
(* pending transition afterwards                                            *)
node_ext_transition(state, phase_now, pending, transition) ==
    IF valid_transitions(state, transition) # "invalid"
    THEN [phase |-> "transitioning", pending |-> transition]
    ELSE [phase |-> phase_now, pending |-> pending]

(* LifecycleManager in phase executing_sequence: outputFnc sends the        *)
(* current step's transition and notes the node in waiting_for_responses,   *)
(* intTransition moves to waiting_for_responses; the named node takes the   *)
(* event in its extTransition.                                              *)
ManagerSendTransition ==
    /\ lm_phase = "executing_sequence"
    /\ IF current_step < Len(operation_sequence)
       THEN LET step == operation_sequence[current_step + 1]
                r == node_ext_transition(lifecycle_state[step.node],
                                         node_phase[step.node],
                                         pending_transition[step.node],
                                         step.transition)
            IN  /\ waiting_for_responses' =
                       Put(waiting_for_responses, step.node,
                           <<current_operation, current_step>>)
                /\ node_phase' = [node_phase EXCEPT ![step.node] = r.phase]
                /\ pending_transition' =
                       [pending_transition EXCEPT ![step.node] = r.pending]
       ELSE UNCHANGED <<waiting_for_responses, node_phase,
                        pending_transition>>
    /\ lm_phase' = "waiting_for_responses"
    /\ current_step' = current_step + 1
    /\ UNCHANGED <<current_operation, operation_sequence, node_states,
                   lifecycle_state, status_out>>
    /\ UNCHANGED lifecycle_frame

(* LifecycleManager.extTransition with (node, TransitionResult) on          *)
(* result_in: the waiting dict and the node states afterwards               *)
manager_result(waiting, states, node, success, to_state) ==
    IF node \in DOMAIN waiting
    THEN [waiting |-> Without(waiting, {node}),
          states |-> IF success THEN [states EXCEPT ![node] = to_state]
                     ELSE states]
    ELSE [waiting |-> waiting, states |-> states]

(* A transitioning node's outputFnc and intTransition: the callback returns *)
(* success or not, the lifecycle state is updated on success, the result is *)
(* put on transition_out and reaches the manager's extTransition.           *)
NodeTransitionDone(node, success) ==
    /\ node_phase[node] = "transitioning"
    /\ LET from_state == lifecycle_state[node]
           to_state == IF success
                       THEN valid_transitions(from_state,
                                              pending_transition[node])
                       ELSE from_state
           r == manager_result(waiting_for_responses, node_states, node,
                               success, to_state)
       IN  /\ lifecycle_state' = [lifecycle_state EXCEPT ![node] = to_state]
           /\ waiting_for_responses' = r.waiting
           /\ node_states' = r.states
    /\ node_phase' = [node_phase EXCEPT ![node] = "idle"]
    /\ pending_transition' = [pending_transition EXCEPT ![node] = "None"]
    /\ UNCHANGED <<lm_phase, current_operation, operation_sequence,
                   current_step, status_out>>
    /\ UNCHANGED lifecycle_frame

(* LifecycleManager.intTransition in phase waiting_for_responses: the next  *)
(* phase                                                                    *)
manager_wait_expired(waiting, step, sequence) ==
    IF waiting = <<>>
    THEN IF step < Len(sequence) THEN "executing_sequence"
         ELSE "operation_complete"
    ELSE "waiting_for_responses"

(* LifecycleManager in phase waiting_for_responses when its 1.0 s time      *)
(* advance expires: outputFnc emits nothing.  No node is still in a         *)
(* transition by then.                                                      *)
ManagerWaitExpired ==
    /\ lm_phase = "waiting_for_responses"
    /\ \A n \in ManagedNodes : node_phase[n] = "idle"
    /\ lm_phase' = manager_wait_expired(waiting_for_responses, current_step,
                                        operation_sequence)
    /\ UNCHANGED <<current_operation, operation_sequence, current_step,
                   waiting_for_responses, node_states, lifecycle_state,
                   node_phase, pending_transition, status_out>>
    /\ UNCHANGED lifecycle_frame

(* LifecycleManager in phase operation_complete: outputFnc reports the      *)
(* status and intTransition returns to idle.                                *)
ManagerOperationComplete ==
    /\ lm_phase = "operation_complete"
    /\ status_out' = <<[operation |-> current_operation,
                         success |-> waiting_for_responses = <<>>,
                         node_states |-> node_states]>>
    /\ lm_phase' = "idle"
    /\ current_operation' = NoOperation
    /\ operation_sequence' = <<>>
    /\ current_step' = 0
    /\ UNCHANGED <<waiting_for_responses, node_states, lifecycle_state,
                   node_phase, pending_transition>>
    /\ UNCHANGED lifecycle_frame

LifecycleInit ==
    /\ LifecycleManagerStart
    /\ LifecycleNodeStart
    /\ lifecycle_state \in [ManagedNodes -> LifecycleStates]
    /\ LifecycleRestIdle

LifecycleNext ==
    \/ \E cmd \in ManagerCommands : ManagerCommand(cmd)
    \/ ManagerSendTransition
    \/ \E node \in ManagedNodes, success \in BOOLEAN :
           NodeTransitionDone(node, success)
    \/ ManagerWaitExpired
    \/ ManagerOperationComplete

SpecLifecycle == LifecycleInit /\ [][LifecycleNext]_vars

(* simulated time goes on: an internal transition that is due is taken *)
FairSpecLifecycle ==
    /\ SpecLifecycle
    /\ WF_vars(ManagerSendTransition)
    /\ WF_vars(\E node \in ManagedNodes, success \in BOOLEAN :
                   NodeTransitionDone(node, success))
    /\ WF_vars(ManagerWaitExpired)
    /\ WF_vars(ManagerOperationComplete)

(* C36: every startup or shutdown the manager has accepted reaches the      *)
(* phase operation_complete and then returns to idle, from every initial    *)
(* lifecycle state of the nodes and also when a node does not answer.       *)
C36_OperationCompletes ==
    /\ (current_operation # NoOperation) ~> (lm_phase = "operation_complete")
    /\ (lm_phase = "operation_complete") ~> (lm_phase = "idle")

----------------------------------------------------------------------------
(* The action server's goals from acceptance to result.  The server's       *)
(* steps are taken as in the kernel, without the time base: the internal    *)
(* step when the server is not passive, the external step on input.  The    *)
(* execute callback is the default one or one that raises, so an executing  *)
(* goal is complete when _start_execution returns.                          *)

CompletingOutcomes == {"complete", "raises"}

(* timeAdvance is finite for some reading of the clock *)
ServerImminent ==
    \E due \in BOOLEAN, remaining \in Remainings :
        ActionServer_timeAdvance(server, due, remaining) # INFINITY

(* outputFnc, then intTransition *)
ServerInternal ==
    /\ ServerImminent
    /\ \E due \in BOOLEAN, outcome \in CompletingOutcomes :
           LET fired == ActionServer_outputFnc(server, due) IN
           /\ srv_output' = fired.out
           /\ server' = ActionServer_intTransition(fired.state, outcome)
    /\ last_step' = "internal"
    /\ UNCHANGED <<clock, srv_last_event_time, srv_ta, srv_elapsed,
                   inputs_sent>>
    /\ UNCHANGED <<qos_vars, transport_vars, run2_vars, dds_vars, rmw_vars,
                   composition_vars, late_vars>>

(* extTransition *)
ServerExternal(input_bag) ==
    /\ inputs_sent < MaxInputs
    /\ server' = ActionServer_extTransition(server, input_bag)
    /\ srv_output' = <<>>
    /\ last_step' = "external"
    /\ inputs_sent' = inputs_sent + 1
    /\ UNCHANGED <<clock, srv_last_event_time, srv_ta, srv_elapsed>>
    /\ UNCHANGED <<qos_vars, transport_vars, run2_vars, dds_vars, rmw_vars,
                   composition_vars, late_vars>>

ServerNext ==
    \/ ServerInternal
    \/ \E input_bag \in ServerInputs : ServerExternal(input_bag)

SpecServer == KernelInit /\ [][ServerNext]_vars

(* an imminent server fires *)
FairSpecServer == SpecServer /\ WF_vars(ServerInternal)

ResultFor(goal_id, output) ==
    \E i \in 1..Len(output) :
        /\ output[i].port = "results"
        /\ output[i].goal_id = goal_id
        /\ output[i].status \in {"SUCCEEDED", "ABORTED", "CANCELED"}

(* C37: every accepted goal eventually has its ActionResult on result_out,  *)
(* with status succeeded, aborted or canceled; a goal leaves active_goals   *)
(* only in the step that emits its result, and a step that emits a goal's   *)
(* result removes the goal, so that there is exactly one result per goal.   *)
C37_OneResultPerGoal ==
    /\ \A g \in GoalIds :
           (g \in DOMAIN server.active_goals)
               ~> (last_step = "internal" /\ ResultFor(g, srv_output))
    /\ [][\A g \in GoalIds :
              /\ (g \in DOMAIN server.active_goals
                  /\ g \notin DOMAIN server'.active_goals)
                     => ResultFor(g, srv_output')
              /\ (last_step' = "internal" /\ ResultFor(g, srv_output'))
                     => (g \in DOMAIN server.active_goals
                         /\ g \notin DOMAIN server'.active_goals)]_vars

----------------------------------------------------------------------------
(* The discovery database: dds/discovery.py.  The three dicts are functions *)
(* (<<>> is the empty dict); an operator takes the database as the record   *)
(* of the three and returns it as the method leaves it.                     *)

DbParticipantGuids == {"p1", "p2"}

DbEndpointGuids == {"e1", "e2"}

DbTopics == {"/chatter", "/scan"}

MaxLease == 2

MaxSweepTime == 3

Database == [participants |-> db_participants, endpoints |-> db_endpoints,
             topic_cache |-> topic_cache]

(* DiscoveryDatabase.add_participant *)
add_participant(db, info) ==
    [db EXCEPT !.participants = Put(db.participants, info.guid, info)]

(* DiscoveryDatabase.add_endpoint *)
add_endpoint(db, info) ==
    LET cache == IF info.topic \in DOMAIN db.topic_cache
                 THEN db.topic_cache
                 ELSE Put(db.topic_cache, info.topic, {}) IN
    [db EXCEPT !.endpoints = Put(db.endpoints, info.guid, info),
               !.topic_cache = [cache EXCEPT ![info.topic] =
                                    cache[info.topic] \cup {info.guid}]]

(* DiscoveryDatabase.remove_endpoint *)
remove_endpoint(db, guid) ==
    IF guid \in DOMAIN db.endpoints
    THEN LET topic == db.endpoints[guid].topic
             removed == [db EXCEPT !.endpoints = Without(db.endpoints, {guid})]
         IN  IF topic \in DOMAIN db.topic_cache
             THEN IF db.topic_cache[topic] \ {guid} = {}
                  THEN [removed EXCEPT !.topic_cache =
                            Without(db.topic_cache, {topic})]
                  ELSE [removed EXCEPT !.topic_cache[topic] =
                            db.topic_cache[topic] \ {guid}]
             ELSE removed
    ELSE db

RECURSIVE remove_endpoints(_, _)
remove_endpoints(db, to_remove) ==
    IF to_remove = {} THEN db
    ELSE LET ep_guid == CHOOSE g \in to_remove : TRUE IN
         remove_endpoints(remove_endpoint(db, ep_guid), to_remove \ {ep_guid})

(* DiscoveryDatabase.remove_participant *)
remove_participant(db, guid) ==
    LET deleted == [db EXCEPT !.participants = Without(db.participants, {guid})]
        to_remove == {g \in DOMAIN db.endpoints :
                          db.endpoints[g].participant_guid = guid}
    IN  remove_endpoints(deleted, to_remove)

RECURSIVE remove_participants(_, _)
remove_participants(db, expired) ==
    IF expired = {} THEN db
    ELSE LET guid == CHOOSE g \in expired : TRUE IN
         remove_participants(remove_participant(db, guid), expired \ {guid})

(* DiscoveryDatabase.cleanup_expired *)
cleanup_expired(db, current_time) ==
    remove_participants(db, {g \in DOMAIN db.participants :
                                 current_time > db.participants[g].lease_expiry})

DbAddParticipant(guid, lease_expiry) ==
    LET db == add_participant(Database,
                  [guid |-> guid, lease_expiry |-> lease_expiry]) IN
    /\ db_participants' = db.participants
    /\ db_endpoints' = db.endpoints
    /\ topic_cache' = db.topic_cache
    /\ UNCHANGED db_frame

DbAddEndpoint(guid, owner, topic) ==
    LET db == add_endpoint(Database,
                  [guid |-> guid, participant_guid |-> owner,
                   topic |-> topic]) IN
    /\ db_participants' = db.participants
    /\ db_endpoints' = db.endpoints
    /\ topic_cache' = db.topic_cache
    /\ UNCHANGED db_frame

DbRemoveEndpoint(guid) ==
    LET db == remove_endpoint(Database, guid) IN
    /\ db_participants' = db.participants
    /\ db_endpoints' = db.endpoints
    /\ topic_cache' = db.topic_cache
    /\ UNCHANGED db_frame

DbRemoveParticipant(guid) ==
    LET db == remove_participant(Database, guid) IN
    /\ db_participants' = db.participants
    /\ db_endpoints' = db.endpoints
    /\ topic_cache' = db.topic_cache
    /\ UNCHANGED db_frame

DbCleanupExpired(current_time) ==
    LET db == cleanup_expired(Database, current_time) IN
    /\ db_participants' = db.participants
    /\ db_endpoints' = db.endpoints
    /\ topic_cache' = db.topic_cache
    /\ UNCHANGED db_frame

DbInit ==
    /\ DbStart
    /\ DbRestIdle

DbNext ==
    \/ \E guid \in DbParticipantGuids, lease_expiry \in 1..MaxLease :
           DbAddParticipant(guid, lease_expiry)
    \/ \E guid \in DbEndpointGuids, owner \in DbParticipantGuids,
          topic \in DbTopics :
           DbAddEndpoint(guid, owner, topic)
    \/ \E guid \in DbEndpointGuids : DbRemoveEndpoint(guid)
    \/ \E guid \in DbParticipantGuids : DbRemoveParticipant(guid)
    \/ \E current_time \in 0..MaxSweepTime : DbCleanupExpired(current_time)

SpecDb == DbInit /\ [][DbNext]_vars

(* C38: a GUID is in topic_cache[t] exactly when it is a stored endpoint    *)
(* whose topic is t, and no topic of the cache has an empty set.            *)
C38_TopicCacheConsistent ==
    /\ \A t \in DbTopics, g \in DbEndpointGuids :
           (t \in DOMAIN topic_cache /\ g \in topic_cache[t])
               <=> (g \in DOMAIN db_endpoints /\ db_endpoints[g].topic = t)
    /\ \A t \in DOMAIN topic_cache : topic_cache[t] # {}

----------------------------------------------------------------------------
(* The participant's data path: from write_data to data_out.                *)

(* the messages write_data can queue *)
QueuedMessages ==
    [writer_guid : {<<LocalParticipant, n>> : n \in 1..MaxLocal},
     sequence_number : 0..MaxSeq, topic : Topics]

Queued(m) ==
    \E i \in 1..Len(dds_pending_messages) : dds_pending_messages[i] = m

(* C39: every message write_data has queued is eventually put on data_out;  *)
(* a message leaves the queue only from its head and only by being put on   *)
(* data_out, and what is put on data_out is the head of the queue, so each  *)
(* message goes out once and in the order of the queue, whatever discovery  *)
(* and heartbeat steps come in between.                                     *)
C39_QueuedDataEmittedInOrder ==
    /\ \A m \in QueuedMessages : Queued(m) ~> (data_out = <<m>>)
    /\ [][/\ (dds_pending_messages # <<>>
               /\ dds_pending_messages' = Tail(dds_pending_messages))
                  => data_out' = <<Head(dds_pending_messages)>>
          /\ data_out' # data_out
                  => /\ dds_pending_messages # <<>>
                     /\ data_out' = <<Head(dds_pending_messages)>>
                     /\ dds_pending_messages' = Tail(dds_pending_messages)]_vars

----------------------------------------------------------------------------
(* Leases: remote participants announce themselves with a lease, local      *)
(* endpoints are created, time passes and the lease sweep runs.  The        *)
(* history variables note when each participant was last heard and whether  *)
(* a sweep has run since.                                                   *)

(* the announcements, with the configured lease and with a longer one *)
LeaseAnnouncements ==
    {[DiscoveryMessage(<<p, 0>>, RemoteEndpoints(p))
          EXCEPT !.lease_duration = lease]
         : p \in RemoteParticipants,
           lease \in {lease_duration, lease_duration + 1}}

LeaseCommands ==
    {Command("create_writer", "t1", DefaultQoSProfile),
     Command("create_reader", "t1", DefaultQoSProfile)}

(* DDSParticipant.extTransition with an announcement on discovery_in *)
LeaseAnnounce(msg) ==
    /\ dds_raised = <<>>
    /\ ta # <<>>
    /\ process_discovery_message(msg)
    /\ ta' = <<>>
    /\ announced_at' = Put(announced_at, msg.participant_guid,
                           [time |-> wallclock, lease |-> msg.lease_duration])
    /\ swept' = FALSE
    /\ UNCHANGED <<phase, initialized, local_writers, local_readers,
                   dds_pending_messages, last_discovery_time,
                   last_heartbeat_time, sequence_numbers, wallclock>>
    /\ UNCHANGED <<qos_vars, transport_vars, run2_vars, rmw_vars, kernel_vars,
                   composition_vars, lease_rest>>

(* DDSParticipant.cleanup_expired_participants *)
LeaseSweep ==
    /\ discovered_participants' =
           cleanup_expired_participants_state.discovered_participants
    /\ discovered_endpoints' =
           cleanup_expired_participants_state.discovered_endpoints
    /\ matched_endpoints' =
           cleanup_expired_participants_state.matched_endpoints
    /\ swept' = TRUE
    /\ last_discovery' = "none"
    /\ UNCHANGED announced_at
    /\ UNCHANGED <<phase, initialized, local_writers, local_readers,
                   dds_pending_messages, last_discovery_time,
                   last_heartbeat_time, sequence_numbers, wallclock, ta>>
    /\ UNCHANGED <<qos_vars, transport_vars, run2_vars, rmw_vars, kernel_vars,
                   composition_vars, lease_rest>>

LeaseNext ==
    \/ TimeAdvance
    \/ Internal
    \/ \E msg \in LeaseAnnouncements : LeaseAnnounce(msg)
    \/ \E command \in LeaseCommands : ExtRmwCommand(command)
    \/ LeaseSweep
    \/ Tick

SpecLease == ParticipantInit /\ [][LeaseNext]_vars

(* the participant is stored and was last heard less than its lease ago *)
HeardWithinLease(guid) ==
    /\ guid \in DOMAIN discovered_participants
    /\ guid \in DOMAIN announced_at
    /\ wallclock - announced_at[guid].time < announced_at[guid].lease

(* the match sets restricted to the endpoints of a participant *)
MatchesOf(guid, matched) ==
    {<<x, y>> \in (DOMAIN matched) \X EndpointsOf(guid) : y \in matched[x]}

(* C40: a lease sweep that runs less than a lease duration after a remote   *)
(* participant's last announcement leaves the participant in                *)
(* discovered_participants and keeps its endpoints and every match with     *)
(* them.                                                                    *)
C40_RenewedLeaseSurvivesSweep ==
    [][\A p \in RemoteParticipants :
           (LeaseSweep /\ HeardWithinLease(<<p, 0>>))
               => /\ <<p, 0>> \in DOMAIN discovered_participants'
                  /\ discovered_participants'[<<p, 0>>]
                         = discovered_participants[<<p, 0>>]
                  /\ EndpointsOf(<<p, 0>>) \subseteq DOMAIN discovered_endpoints'
                  /\ MatchesOf(<<p, 0>>, matched_endpoints')
                         = MatchesOf(<<p, 0>>, matched_endpoints)]_vars

(* a sweep has run after the last announcement, at a later time than it and *)
(* less than the lease after it, and the participant is stored and matched. *)
C40_Witness ==
    /\ swept
    /\ \E p \in RemoteParticipants :
           /\ HeardWithinLease(<<p, 0>>)
           /\ wallclock > announced_at[<<p, 0>>].time
           /\ MatchesOf(<<p, 0>>, matched_endpoints) # {}

====
